---- MODULE Spec2Model ----
(***************************************************************************)
(* Model of the market-data backend: the confirm endpoint (gap             *)
(* reconciliation over the bars table), the symbol and quote tables it     *)
(* touches, and the shared rate limiter of the bars provider.              *)
(*                                                                         *)
(* Dates are integers (days since 1970-01-01); a bar timestamp is an       *)
(* integer number of hours since the epoch, so that datetime.date() is a   *)
(* real conversion (ts \div 24).  An optional value is a sequence of       *)
(* length 0 (None) or 1.                                                   *)
(***************************************************************************)
EXTENDS Integers, Sequences, FiniteSets, Bags, TLC

(***************************************************************************)
(* Bounds of the model.                                                    *)
(***************************************************************************)
\* number of confirm requests served in one behaviour by concurrent workers
MaxCalls == 2
\* number of confirm requests served in one behaviour of the three-request race
MaxRaceCalls == 3
\* number of confirm requests served in one behaviour by a single worker
MaxSeqCalls == 3
\* the request-handling threads
Workers == {1, 2}
\* number of RateLimiter.wait() calls in one behaviour
MaxWaits == 3
\* the last clock reading of a behaviour, in seconds
MaxClock == 40
\* the amounts by which the clock is seen to advance, in seconds
ClockSteps == {4, 7}

\* the values date.today() takes during a behaviour (it starts at the least)
Todays == {1000, 1001}

(***************************************************************************)
(* Provider constraints / app policy (main.py).                            *)
(***************************************************************************)
PROVIDER_DELAY_DAYS == 3
MAX_HISTORY_DAYS == 365 * 2
UNIX_EPOCH == 0

None == <<>>
Some(x) == <<x>>
IsNone(o) == o = <<>>
Val(o) == o[1]

Min(a, b) == IF a <= b THEN a ELSE b
Max(a, b) == IF a >= b THEN a ELSE b

(***************************************************************************)
(* Strings are sequences of characters; str.upper() and str.strip().       *)
(***************************************************************************)
UpperChar(c) == IF c = "a" THEN "A" ELSE IF c = "b" THEN "B" ELSE c
upper(s) == [i \in 1..Len(s) |-> UpperChar(s[i])]

RECURSIVE lstrip(_)
lstrip(s) == IF s # <<>> /\ Head(s) = " " THEN lstrip(Tail(s)) ELSE s
RECURSIVE rstrip(_)
rstrip(s) == IF s # <<>> /\ s[Len(s)] = " " THEN rstrip(SubSeq(s, 1, Len(s) - 1)) ELSE s
strip(s) == rstrip(lstrip(s))

LowerChar(c) ==
    IF c = "A" THEN "a" ELSE IF c = "B" THEN "b" ELSE IF c = "T" THEN "t"
    ELSE IF c = "X" THEN "x" ELSE c
\* str.lower()
lower(s) == [i \in 1..Len(s) |-> LowerChar(s[i])]

\* t = ticker.upper().strip()
NormTicker(raw) == strip(upper(raw))

(***************************************************************************)
(* Request inputs.                                                         *)
(***************************************************************************)
\* query strings for start / end: omitted, an ISO date, or a malformed string
NoDate == [k |-> "none", d |-> 0]
BadDate == [k |-> "bad", d |-> 0]
IsoDate(d) == [k |-> "date", d |-> d]

RawTickers == {<<"a">>, <<" ", "A">>, <<" ">>}
\* what the clients of the concurrent workers ask for
ReqStarts == {IsoDate(990), IsoDate(996)}
ReqEnds == {IsoDate(991), IsoDate(997)}
\* what the clients of the single worker ask for
SeqStarts == {NoDate, BadDate, IsoDate(100), IsoDate(990), IsoDate(996), IsoDate(999)}
SeqEnds == {NoDate, BadDate, IsoDate(991), IsoDate(997)}

\* the bars the provider has: timestamps in hours since the epoch (04:00 UTC of a day)
BarTs(d) == d * 24 + 4
ProviderData == {BarTs(d) : d \in {300, 990, 993, 997, 998}}
\* the timestamps the provider returns twice in one response
ProviderDup == {BarTs(993)}

\* datetime.date()
DateOf(ts) == ts \div 24

\* quote timestamps the quote provider may report: to the concurrent workers, to the single worker
QuoteTimes == {7}
SeqQuoteTimes == {7, 9}

\* fetch_profile responses: name and exchange, each possibly absent
Profiles == {[name |-> None, exchange |-> None],
             [name |-> Some("Apple"), exchange |-> Some("NASDAQ")]}

(***************************************************************************)
(* State.                                                                  *)
(***************************************************************************)
VARIABLES
    symbols,    \* symbols table: sequence of rows, the row's id is its index
    bars,       \* bars table: bag of rows [symbol_id, timeframe, ts]
    quotes,     \* quotes table: bag of rows [symbol_id, quote_ts]
    today,      \* date.today()
    loc,        \* per worker: position in confirm_symbol and its local variables
    calls,      \* number of confirm requests started
    last_ok     \* history: the parameters of the last successful confirm, if no bar was written since it returned

\* the shared RateLimiter and the threads inside wait()
VARIABLES
    clock,          \* time.time(), in seconds
    lock,           \* RateLimiter.lock: the thread holding it, or 0
    next_allowed,   \* RateLimiter.next_allowed
    thr,            \* per thread: position in wait() and its local now
    rl_log          \* history: one entry per wait() that returned, in order of return

\* fetch_bars in progress, the news table, and the inputs of dedupe_headlines
VARIABLES
    fb,             \* per thread: position in fetch_bars and its local variables
    news,           \* news_articles table: sequence of rows, the row's id is its index
    dd              \* a call of dedupe_headlines: its arguments and its result

confvars == <<symbols, bars, quotes, today, loc, calls, last_ok>>
limvars == <<clock, lock, next_allowed, thr, rl_log>>
restvars == <<fb, news, dd>>
vars == <<confvars, limvars, restvars>>

\* the id of the symbols row with ticker t, or None: db.query(Symbol).filter(Symbol.ticker == t)
SymbolByTicker(tab, t) ==
    IF \E i \in 1..Len(tab) : tab[i].ticker = t
    THEN Some(CHOOSE i \in 1..Len(tab) : tab[i].ticker = t)
    ELSE None

\* the worker's local variables before a request
IdleLoc ==
    [pc |-> "idle", ticker |-> <<>>, start |-> NoDate, end |-> NoDate,
     sym |-> 0, name_loaded |-> None,
     tdy |-> 0, desired_start |-> 0, desired_end |-> 0,
     have_start |-> None, have_end |-> None,
     missing_ranges |-> <<>>, gi |-> 0, rows |-> <<>>, ri |-> 0,
     bars_fetched |-> 0, bars_inserted |-> 0, status |-> "none",
     \* the news, quote and read endpoints: which handler runs, its arguments and result
     op |-> "none", day |-> NoDate, limit |-> 0, headlines |-> <<>>, res |-> None,
     \* history of the call, not read by the code
     quote |-> "none", rep |-> FALSE,
     mine |-> {}, fetched |-> {}, fetches |-> 0,
     hit |-> FALSE, prov |-> "none", at_check |-> {}, ins |-> {}]

\* fetch_bars is not running
IdleFb ==
    [pc |-> "off", key |-> TRUE, df |-> 0, dt |-> 0, attempt |-> 0, rows |-> <<>>, code |-> 0,
     \* history of the call, not read by the code
     w0 |-> 0, waits |-> 0, http |-> 0, sleeps |-> <<>>, wake |-> 0]

\* dedupe_headlines is not called
NoDedupe == [items |-> <<>>, limit |-> 0, out |-> <<>>, pc |-> "none"]

\* after start-up: empty bar, quote and article tables, idle workers, a fresh limiter
InitTables ==
    /\ bars = EmptyBag
    /\ quotes = EmptyBag
    /\ today = 1000
    /\ loc = [p \in Workers |-> IdleLoc]
    /\ calls = 0
    /\ last_ok = None
    /\ clock = 1
    /\ lock = 0
    /\ next_allowed = 0
    /\ thr = [p \in Workers |-> [pc |-> "out", now |-> 0, seen |-> 0, wake |-> 0]]
    /\ rl_log = <<>>
    /\ news = <<>>

\* the service started over an empty database, with its provider key set
InitService ==
    /\ InitTables
    /\ symbols = <<>>
    /\ fb = [p \in Workers |-> IdleFb]

Init == InitService /\ dd = NoDedupe

\* the handler has returned: its locals are gone, the response (or the failure) and its counters remain
Done(l, st) ==
    [IdleLoc EXCEPT !.pc = "done", !.status = st, !.op = l.op,
                    !.bars_fetched = l.bars_fetched, !.bars_inserted = l.bars_inserted]

\* the call ends with an HTTP error or an unhandled exception
Fail(l, why) == Done(l, why)

(***************************************************************************)
(* get_or_create_symbol                                                    *)
(***************************************************************************)
\* POST /symbols/confirm arrives; get_or_create_symbol normalises the ticker and looks it up
get_or_create_symbol(p, raw, s, e, max) ==
    /\ loc[p].pc \in {"idle", "done"}
    /\ calls < max
    /\ calls' = calls + 1
    /\ LET t == NormTicker(raw)
           found == SymbolByTicker(symbols, t)
           l0 == [IdleLoc EXCEPT !.op = "confirm", !.ticker = t, !.start = s, !.end = e]
       IN loc' = [loc EXCEPT ![p] =
                    IF t = <<>> THEN Fail(l0, "value_error")
                    ELSE IF IsNone(found) THEN [l0 EXCEPT !.pc = "create_symbol"]
                    ELSE [l0 EXCEPT !.pc = "ensure_metadata", !.sym = Val(found),
                                    !.name_loaded = symbols[Val(found)].name]]
    /\ UNCHANGED <<symbols, bars, quotes, today, last_ok, limvars, restvars>>

\* uniqueness constraint of symbols.ticker (models.py)
SymbolInsertConflicts(tab, t) == \E i \in 1..Len(tab) : tab[i].ticker = t

\* db.add(Symbol(ticker=t)); db.commit(); db.refresh(sym)
create_symbol(p) ==
    /\ loc[p].pc = "create_symbol"
    /\ IF SymbolInsertConflicts(symbols, loc[p].ticker)
       THEN /\ loc' = [loc EXCEPT ![p] = Fail(@, "integrity_error")]
            /\ UNCHANGED symbols
       ELSE /\ symbols' = Append(symbols, [ticker |-> loc[p].ticker, name |-> None, exchange |-> None])
            /\ loc' = [loc EXCEPT ![p] = [@ EXCEPT !.pc = "ensure_metadata",
                                                   !.sym = Len(symbols) + 1,
                                                   !.name_loaded = None]]
    /\ UNCHANGED <<bars, quotes, today, calls, last_ok, limvars, restvars>>

(***************************************************************************)
(* Policy clamps                                                           *)
(***************************************************************************)
\* the end clamp without the provider delay
clamp_end_for_provider_nodelay(d, tdy) == Min(d, tdy)

clamp_end_for_provider(d, tdy) == Min(d, tdy - PROVIDER_DELAY_DAYS)

clamp_start_for_plan(start_d, end_d) == Max(start_d, end_d - MAX_HISTORY_DAYS)

\* lines 386-387: desired_end
ResolveEnd(e, tdy) == clamp_end_for_provider(IF e.k = "none" THEN tdy ELSE e.d, tdy)

\* lines 389-393: desired_start
ResolveStart(s, end_d) ==
    clamp_start_for_plan(IF s.k = "none" THEN end_d - 365 ELSE s.d, end_d)

\* the parameters that identify a repeated confirm
CallKey(l) == <<l.ticker, l.start, l.end, l.tdy>>

\* parse and clamp without the range check
ClampAndValidate_nocheck(l, tdy, cl) ==
    IF l.end.k = "bad" \/ l.start.k = "bad" THEN Fail(l, "bad_date")
    ELSE LET de == ResolveEnd(l.end, tdy)
             ds == ResolveStart(l.start, de)
         IN [l EXCEPT !.pc = "quote", !.tdy = tdy, !.desired_start = ds, !.desired_end = de,
                      !.rep = (cl = Some(CallKey([l EXCEPT !.tdy = tdy])))]

\* lines 386-396 of confirm_symbol: parse, clamp, validate
ClampAndValidate(l, tdy, cl) ==
    IF l.end.k = "bad" \/ l.start.k = "bad" THEN Fail(l, "bad_date")
    ELSE LET de == ResolveEnd(l.end, tdy)
             ds == ResolveStart(l.start, de)
         IN IF ds > de
            THEN Fail(l, "invalid_range")
            ELSE [l EXCEPT !.pc = "quote", !.tdy = tdy, !.desired_start = ds, !.desired_end = de,
                           !.rep = (cl = Some(CallKey([l EXCEPT !.tdy = tdy])))]

\* what follows ensure_symbol_metadata: the cache query of news_for_day (line 305), or
\* the clamps of confirm_symbol (line 386)
AfterMetadata(l, tdy, cl) ==
    IF l.op = "news" THEN [l EXCEPT !.pc = "news_cache"] ELSE ClampAndValidate(l, tdy, cl)

(***************************************************************************)
(* ensure_symbol_metadata                                                  *)
(***************************************************************************)
\* sym.<field> after ensure_symbol_metadata applied the profile
MergeField(old, new) == IF IsNone(new) THEN old ELSE new

\* a handler that stores the quote before it validates the range
ensure_symbol_metadata_skip_quotefirst(p) ==
    /\ loc[p].pc = "ensure_metadata"
    /\ ~IsNone(loc[p].name_loaded)
    /\ quotes' = quotes (+) SetToBag({[symbol_id |-> loc[p].sym, quote_ts |-> 7,
                                       id |-> BagCardinality(quotes) + 1]})
    /\ loc' = [loc EXCEPT ![p] = AfterMetadata(@, today, last_ok)]
    /\ UNCHANGED <<symbols, bars, today, calls, last_ok, limvars, restvars>>

\* sym.name was loaded non-empty: nothing is fetched, the request goes on to the clamps
ensure_symbol_metadata_skip(p) ==
    /\ loc[p].pc = "ensure_metadata"
    /\ ~IsNone(loc[p].name_loaded)
    /\ loc' = [loc EXCEPT ![p] = AfterMetadata(@, today, last_ok)]
    /\ UNCHANGED <<symbols, bars, quotes, today, calls, last_ok, limvars, restvars>>

\* fetch_profile answered: the fields it has are written and committed
ensure_symbol_metadata_fetch(p, meta) ==
    /\ loc[p].pc = "ensure_metadata"
    /\ IsNone(loc[p].name_loaded)
    /\ symbols' = [symbols EXCEPT ![loc[p].sym] =
                     [@ EXCEPT !.name = MergeField(@, meta.name),
                               !.exchange = MergeField(@, meta.exchange)]]
    /\ loc' = [loc EXCEPT ![p] = AfterMetadata(@, today, last_ok)]
    /\ UNCHANGED <<bars, quotes, today, calls, last_ok, limvars, restvars>>

\* fetch_profile raised (raise_for_status): nothing catches it
ensure_symbol_metadata_error(p) ==
    /\ loc[p].pc = "ensure_metadata"
    /\ IsNone(loc[p].name_loaded)
    /\ loc' = [loc EXCEPT ![p] = Fail(@, "profile_error")]
    /\ UNCHANGED <<symbols, bars, quotes, today, calls, last_ok, limvars, restvars>>

(***************************************************************************)
(* Best-effort quote refresh                                               *)
(***************************************************************************)
\* Quote(symbol_id=sym.id, quote_ts=q["quote_ts"], ...) with the id the table gives it
QuoteRow(tab, sid, qts) == [symbol_id |-> sid, quote_ts |-> qts, id |-> BagCardinality(tab) + 1]

\* fetch_quote answered and the Quote row is committed
quote_refresh_ok(p, qts) ==
    /\ loc[p].pc = "quote"
    /\ quotes' = quotes (+) SetToBag({QuoteRow(quotes, loc[p].sym, qts)})
    /\ loc' = [loc EXCEPT ![p] = [@ EXCEPT !.pc = "query_oldest", !.quote = "ok"]]
    /\ UNCHANGED <<symbols, bars, today, calls, last_ok, limvars, restvars>>

\* the quote failure propagated instead of swallowed
quote_refresh_fail_raise(p) ==
    /\ loc[p].pc = "quote"
    /\ loc' = [loc EXCEPT ![p] = Fail(@, "quote_error")]
    /\ UNCHANGED <<symbols, bars, quotes, today, calls, last_ok, limvars, restvars>>

\* fetch_quote or the insert raised: except Exception: db.rollback()
quote_refresh_fail(p) ==
    /\ loc[p].pc = "quote"
    /\ loc' = [loc EXCEPT ![p] = [@ EXCEPT !.pc = "query_oldest", !.quote = "failed"]]
    /\ UNCHANGED <<symbols, bars, quotes, today, calls, last_ok, limvars, restvars>>

(***************************************************************************)
(* Coverage extent and gap computation                                     *)
(***************************************************************************)
SetMin(S) == CHOOSE x \in S : \A y \in S : x <= y
SetMax(S) == CHOOSE x \in S : \A y \in S : x >= y

\* the timestamps of the symbol's "1d" bars
BarTsOf(tab, sid) ==
    {r.ts : r \in {x \in BagToSet(tab) : x.symbol_id = sid /\ x.timeframe = "1d"}}

\* db.query(Bar.ts)...order_by(Bar.ts.asc()).first(), then .date()
OldestDate(tab, sid) ==
    IF BarTsOf(tab, sid) = {} THEN None ELSE Some(DateOf(SetMin(BarTsOf(tab, sid))))

\* db.query(Bar.ts)...order_by(Bar.ts.desc()).first(), then .date()
LatestDate(tab, sid) ==
    IF BarTsOf(tab, sid) = {} THEN None ELSE Some(DateOf(SetMax(BarTsOf(tab, sid))))

\* the gap list with the left gap ending on have_start itself
MissingRanges_offbyone(ds, de, hs, he) ==
    LET cand == IF IsNone(hs) \/ IsNone(he)
                THEN << <<ds, de>> >>
                ELSE (IF ds < Val(hs) THEN << <<ds, Val(hs)>> >> ELSE <<>>)
                     \o (IF de > Val(he) THEN << <<Val(he) + 1, de>> >> ELSE <<>>)
    IN SelectSeq(cand, LAMBDA g : g[1] <= g[2])

\* lines 433-442: the gap list
MissingRanges(ds, de, hs, he) ==
    LET cand == IF IsNone(hs) \/ IsNone(he)
                THEN << <<ds, de>> >>
                ELSE (IF ds < Val(hs) THEN << <<ds, Val(hs) - 1>> >> ELSE <<>>)
                     \o (IF de > Val(he) THEN << <<Val(he) + 1, de>> >> ELSE <<>>)
    IN SelectSeq(cand, LAMBDA g : g[1] <= g[2])

\* an extent query that finds no stored bar whatever the table holds
query_oldest_blind(p) ==
    /\ loc[p].pc = "query_oldest"
    /\ loc' = [loc EXCEPT ![p] = [@ EXCEPT !.pc = "query_latest", !.have_start = None]]
    /\ UNCHANGED <<symbols, bars, quotes, today, calls, last_ok, limvars, restvars>>

\* lines 417-422, 430: the oldest stored date is read
query_oldest(p) ==
    /\ loc[p].pc = "query_oldest"
    /\ loc' = [loc EXCEPT ![p] = [@ EXCEPT !.pc = "query_latest",
                                           !.have_start = OldestDate(bars, loc[p].sym)]]
    /\ UNCHANGED <<symbols, bars, quotes, today, calls, last_ok, limvars, restvars>>

\* where the call goes after gap number gi
AfterGap(l) ==
    IF l.gi < Len(l.missing_ranges)
    THEN [l EXCEPT !.pc = "fetch", !.gi = @ + 1, !.rows = <<>>, !.ri = 0]
    ELSE [l EXCEPT !.pc = "finish"]

\* a gap list whose gaps are cut to the desired interval
query_latest_clipped(p) ==
    /\ loc[p].pc = "query_latest"
    /\ LET he == LatestDate(bars, loc[p].sym)
           gaps == MissingRanges(loc[p].desired_start, loc[p].desired_end, loc[p].have_start, he)
           cut == [i \in DOMAIN gaps |-> <<Max(gaps[i][1], loc[p].desired_start),
                                           Min(gaps[i][2], loc[p].desired_end)>>]
       IN loc' = [loc EXCEPT ![p] =
                    AfterGap([@ EXCEPT !.have_end = he, !.missing_ranges = cut, !.gi = 0])]
    /\ UNCHANGED <<symbols, bars, quotes, today, calls, last_ok, limvars, restvars>>

\* lines 430-442: the latest stored date is read and the gap list computed
query_latest(p) ==
    /\ loc[p].pc = "query_latest"
    /\ LET he == LatestDate(bars, loc[p].sym)
           gaps == MissingRanges(loc[p].desired_start, loc[p].desired_end, loc[p].have_start, he)
       IN loc' = [loc EXCEPT ![p] =
                    AfterGap([@ EXCEPT !.have_end = he, !.missing_ranges = gaps, !.gi = 0])]
    /\ UNCHANGED <<symbols, bars, quotes, today, calls, last_ok, limvars, restvars>>

(***************************************************************************)
(* Bars provider                                                           *)
(***************************************************************************)
\* the sequence of the elements of a finite set of integers, ascending (sort=asc)
RECURSIVE SortedSeq(_)
SortedSeq(S) == IF S = {} THEN <<>> ELSE <<SetMin(S)>> \o SortedSeq(S \ {SetMin(S)})

\* the requested range with a start before the floor left as it is
EffectiveRange_noraise(df, dt) ==
    IF df > dt THEN None
    ELSE IF dt < UNIX_EPOCH THEN None
    ELSE Some(<<df, dt>>)

\* massive.py lines 77-85: the range actually requested; empty when nothing is requested
EffectiveRange(df, dt) ==
    IF df > dt THEN None
    ELSE IF dt < UNIX_EPOCH THEN None
    ELSE Some(<<Max(df, UNIX_EPOCH), dt>>)

\* each timestamp of an ascending sequence once, those of ProviderDup twice
RECURSIVE WithDups(_)
WithDups(q) ==
    IF q = <<>> THEN <<>>
    ELSE (IF Head(q) \in ProviderDup THEN <<Head(q), Head(q)>> ELSE <<Head(q)>>) \o WithDups(Tail(q))

\* the provider's answer for a range: its bars dated inside it, ascending; the same
\* range always gets the same answer
ProviderRows(df, dt) ==
    WithDups(SortedSeq({ts \in ProviderData : df <= DateOf(ts) /\ DateOf(ts) <= dt}))

\* what fetch_bars returns when the provider answers
fetch_bars(df, dt) ==
    IF IsNone(EffectiveRange(df, dt)) THEN <<>>
    ELSE ProviderRows(Val(EffectiveRange(df, dt))[1], Val(EffectiveRange(df, dt))[2])

\* fetch_bars raised ProviderError (or anything else): HTTP 502
OnFetchError(l) == Fail([l EXCEPT !.fetches = @ + 1], "upstream_error")

\* a provider failure that undoes the gaps already merged by the call
confirm_fetch_error_rollback(p) ==
    /\ loc[p].pc = "fetch"
    /\ loc' = [loc EXCEPT ![p] = OnFetchError(@)]
    /\ bars' = bars (-) SetToBag(loc[p].mine)
    /\ UNCHANGED <<symbols, quotes, today, calls, last_ok, limvars, restvars>>

\* the gap's fetch_bars call raised
confirm_fetch_error(p) ==
    /\ loc[p].pc = "fetch"
    /\ loc' = [loc EXCEPT ![p] = OnFetchError(@)]
    /\ UNCHANGED <<symbols, bars, quotes, today, calls, last_ok, limvars, restvars>>

\* a fetch that asks the provider for the first day of the gap only
confirm_fetch_ok_firstday(p) ==
    /\ loc[p].pc = "fetch"
    /\ LET g == loc[p].missing_ranges[loc[p].gi]
           out == fetch_bars(g[1], g[1])
       IN loc' = [loc EXCEPT ![p] = [@ EXCEPT !.pc = "commit_batch", !.rows = out,
                                              !.fetches = @ + 1,
                                              !.fetched = @ \cup {out[i] : i \in DOMAIN out},
                                              !.bars_fetched = @ + Len(out)]]
    /\ UNCHANGED <<symbols, bars, quotes, today, calls, last_ok, limvars, restvars>>

\* lines 446-461: fetch_bars answered for the current gap
confirm_fetch_ok(p) ==
    /\ loc[p].pc = "fetch"
    /\ LET g == loc[p].missing_ranges[loc[p].gi]
           out == fetch_bars(g[1], g[2])
       IN loc' = [loc EXCEPT ![p] = [@ EXCEPT !.pc = "commit_batch", !.rows = out,
                                              !.fetches = @ + 1,
                                              !.fetched = @ \cup {out[i] : i \in DOMAIN out},
                                              !.bars_fetched = @ + Len(out)]]
    /\ UNCHANGED <<symbols, bars, quotes, today, calls, last_ok, limvars, restvars>>

(***************************************************************************)
(* Merge                                                                   *)
(***************************************************************************)
\* Bar(symbol_id=sym.id, timeframe="1d", ts=r["ts"], ...)
BarRow(sid, ts) == [symbol_id |-> sid, timeframe |-> "1d", ts |-> ts]

Range(f) == {f[i] : i \in DOMAIN f}

\* the table without its uniqueness constraint
BarInsertConflicts_off(tab, rs) == FALSE

\* uq_bars_symbol_tf_ts: inserting the rows violates the constraint
BarInsertConflicts(tab, rs) ==
    \/ \E i \in DOMAIN rs : BagIn(rs[i], tab)
    \/ \E i, j \in DOMAIN rs : i # j /\ rs[i] = rs[j]

RECURSIVE SeqToBag(_)
SeqToBag(rs) == IF rs = <<>> THEN EmptyBag ELSE SetToBag({Head(rs)}) (+) SeqToBag(Tail(rs))

\* the last successful confirm is remembered only while no bar is written
LastOkAfterInsert(cl, rs) == IF rs = <<>> THEN cl ELSE None

\* the batch commit without the row-by-row fallback: the IntegrityError escapes
commit_batch_nofallback(p) ==
    /\ loc[p].pc = "commit_batch"
    /\ LET batch == [i \in DOMAIN loc[p].rows |-> BarRow(loc[p].sym, loc[p].rows[i])]
       IN IF BarInsertConflicts(bars, batch)
          THEN /\ loc' = [loc EXCEPT ![p] = Fail(@, "integrity_error")]
               /\ UNCHANGED <<bars, last_ok>>
          ELSE /\ bars' = bars (+) SeqToBag(batch)
               /\ last_ok' = LastOkAfterInsert(last_ok, batch)
               /\ loc' = [loc EXCEPT ![p] =
                            AfterGap([@ EXCEPT !.bars_inserted = @ + Len(batch),
                                               !.mine = @ \cup Range(batch)])]
    /\ UNCHANGED <<symbols, quotes, today, calls, limvars, restvars>>

\* db.add_all(batch); db.commit()
commit_batch(p) ==
    /\ loc[p].pc = "commit_batch"
    /\ LET batch == [i \in DOMAIN loc[p].rows |-> BarRow(loc[p].sym, loc[p].rows[i])]
       IN IF BarInsertConflicts(bars, batch)
          THEN /\ loc' = [loc EXCEPT ![p] = [@ EXCEPT !.pc = "row_by_row", !.ri = 1]]
               /\ UNCHANGED <<bars, last_ok>>
          ELSE /\ bars' = bars (+) SeqToBag(batch)
               /\ last_ok' = LastOkAfterInsert(last_ok, batch)
               /\ loc' = [loc EXCEPT ![p] =
                            AfterGap([@ EXCEPT !.bars_inserted = @ + Len(batch),
                                               !.mine = @ \cup Range(batch)])]
    /\ UNCHANGED <<symbols, quotes, today, calls, limvars, restvars>>

\* the fallback loop left after its first row
AfterRow_first(l) == AfterGap(l)

\* where the fallback loop goes after row number ri
AfterRow(l) == IF l.ri < Len(l.rows) THEN [l EXCEPT !.ri = @ + 1] ELSE AfterGap(l)

\* a fallback loop that counts every row it tries, inserted or skipped
commit_row_countall(p) ==
    /\ loc[p].pc = "row_by_row"
    /\ LET b == BarRow(loc[p].sym, loc[p].rows[loc[p].ri])
       IN IF BarInsertConflicts(bars, <<b>>)
          THEN /\ loc' = [loc EXCEPT ![p] = AfterRow([@ EXCEPT !.bars_inserted = @ + 1])]
               /\ UNCHANGED <<bars, last_ok>>
          ELSE /\ bars' = bars (+) SetToBag({b})
               /\ last_ok' = None
               /\ loc' = [loc EXCEPT ![p] =
                            AfterRow([@ EXCEPT !.bars_inserted = @ + 1,
                                               !.mine = @ \cup {b}])]
    /\ UNCHANGED <<symbols, quotes, today, calls, limvars, restvars>>

\* the fallback loop: db.add(b); db.commit(), one row per transaction
commit_row(p) ==
    /\ loc[p].pc = "row_by_row"
    /\ LET b == BarRow(loc[p].sym, loc[p].rows[loc[p].ri])
       IN IF BarInsertConflicts(bars, <<b>>)
          THEN /\ loc' = [loc EXCEPT ![p] = AfterRow(@)]
               /\ UNCHANGED <<bars, last_ok>>
          ELSE /\ bars' = bars (+) SetToBag({b})
               /\ last_ok' = None
               /\ loc' = [loc EXCEPT ![p] =
                            AfterRow([@ EXCEPT !.bars_inserted = @ + 1,
                                               !.mine = @ \cup {b}])]
    /\ UNCHANGED <<symbols, quotes, today, calls, limvars, restvars>>

\* lines 493-517: the extent is read again and the result returned
confirm_return(p) ==
    /\ loc[p].pc = "finish"
    /\ loc' = [loc EXCEPT ![p] = Done(@, "ok")]
    /\ last_ok' = Some(CallKey(loc[p]))
    /\ UNCHANGED <<symbols, bars, quotes, today, calls, limvars, restvars>>

\* midnight passes
AdvanceDay ==
    /\ today + 1 \in Todays
    /\ today' = today + 1
    /\ UNCHANGED <<symbols, bars, quotes, loc, calls, last_ok, limvars, restvars>>

\* the requests of the workers W, asking for starts S and ends E, at most max of them
Serve(W, S, E, Q, max) ==
    \/ \E p \in W, raw \in RawTickers, s \in S, e \in E :
           get_or_create_symbol(p, raw, s, e, max)
    \/ \E p \in W : create_symbol(p)
    \/ \E p \in W : ensure_symbol_metadata_skip(p)
    \/ \E p \in W, meta \in Profiles : ensure_symbol_metadata_fetch(p, meta)
    \/ \E p \in W : ensure_symbol_metadata_error(p)
    \/ \E p \in W, qts \in Q : quote_refresh_ok(p, qts)
    \/ \E p \in W : quote_refresh_fail(p)
    \/ \E p \in W : query_oldest(p)
    \/ \E p \in W : query_latest(p)
    \/ \E p \in W : confirm_fetch_error(p)
    \/ \E p \in W : confirm_fetch_ok(p)
    \/ \E p \in W : commit_batch(p)
    \/ \E p \in W : commit_row(p)
    \/ \E p \in W : confirm_return(p)

\* concurrent requests
Next == Serve(Workers, ReqStarts, ReqEnds, QuoteTimes, MaxCalls)

Spec == Init /\ [][Next]_vars

\* concurrent requests, one more of them
NextRace == Serve(Workers, ReqStarts, ReqEnds, QuoteTimes, MaxRaceCalls)

SpecRace == Init /\ [][NextRace]_vars

\* requests served one at a time, the calendar day may change
NextSeq == Serve({1}, SeqStarts, SeqEnds, SeqQuoteTimes, MaxSeqCalls) \/ AdvanceDay

SpecSeq == Init /\ [][NextSeq]_vars

(***************************************************************************)
(* RateLimiter (rate_limit.py)                                             *)
(***************************************************************************)
\* massive_limiter = RateLimiter(calls_per_minute=5)
calls_per_minute == 5
\* self.period = 60.0 / float(calls_per_minute)
period == 60 \div calls_per_minute

\* entering the with block without taking the lock
rl_acquire_nolock(p) ==
    /\ thr[p].pc = "out"
    /\ Len(rl_log) + Cardinality({q \in Workers : thr[q].pc # "out"}) < MaxWaits
    /\ lock' = p
    /\ thr' = [thr EXCEPT ![p].pc = "locked"]
    /\ UNCHANGED <<clock, next_allowed, rl_log, confvars, restvars>>

\* wait(): with self.lock
rl_acquire(p) ==
    /\ thr[p].pc = "out"
    /\ Len(rl_log) + Cardinality({q \in Workers : thr[q].pc # "out"}) < MaxWaits
    /\ lock = 0
    /\ lock' = p
    /\ thr' = [thr EXCEPT ![p].pc = "locked"]
    /\ UNCHANGED <<clock, next_allowed, rl_log, confvars, restvars>>

\* now = time.time(); if now < self.next_allowed: time.sleep(self.next_allowed - now)
rl_check(p) ==
    /\ thr[p].pc = "locked"
    /\ thr' = [thr EXCEPT ![p] =
                 [pc |-> IF clock < next_allowed THEN "sleeping" ELSE "awake",
                  now |-> clock, seen |-> next_allowed,
                  wake |-> IF clock < next_allowed THEN clock + (next_allowed - clock) ELSE 0]]
    /\ UNCHANGED <<clock, lock, next_allowed, rl_log, confvars, restvars>>

\* time.sleep returns, not before the requested duration has passed
rl_wake(p) ==
    /\ thr[p].pc = "sleeping"
    /\ clock >= thr[p].wake
    /\ thr' = [thr EXCEPT ![p].pc = "awake"]
    /\ UNCHANGED <<clock, lock, next_allowed, rl_log, confvars, restvars>>

\* leaving wait() without releasing the lock
rl_advance_keeplock(p) ==
    /\ thr[p].pc = "awake"
    /\ next_allowed' = clock + period
    /\ rl_log' = Append(rl_log, [seen |-> thr[p].seen, now |-> thr[p].now, rel |-> clock, by |-> p])
    /\ lock' = lock
    /\ thr' = [thr EXCEPT ![p] = [pc |-> "out", now |-> 0, seen |-> 0, wake |-> 0]]
    /\ UNCHANGED <<clock, confvars, restvars>>

\* self.next_allowed = time.time() + self.period, and the with block is left
rl_advance(p) ==
    /\ thr[p].pc = "awake"
    /\ next_allowed' = clock + period
    /\ rl_log' = Append(rl_log, [seen |-> thr[p].seen, now |-> thr[p].now, rel |-> clock, by |-> p])
    /\ lock' = IF lock = p THEN 0 ELSE lock
    /\ thr' = [thr EXCEPT ![p] = [pc |-> "out", now |-> 0, seen |-> 0, wake |-> 0]]
    /\ UNCHANGED <<clock, confvars, restvars>>

\* time passes
Tick(d) ==
    /\ clock + d <= MaxClock
    /\ clock' = clock + d
    /\ UNCHANGED <<lock, next_allowed, thr, rl_log, confvars, restvars>>

NextLimiter ==
    \/ \E p \in Workers : rl_acquire(p)
    \/ \E p \in Workers : rl_check(p)
    \/ \E p \in Workers : rl_wake(p)
    \/ \E p \in Workers : rl_advance(p)
    \/ \E d \in ClockSteps : Tick(d)

SpecLimiter == Init /\ [][NextLimiter]_vars

(***************************************************************************)
(* fetch_bars (massive.py), step by step: the retry loop, the limiter call  *)
(* before every request, the backoff sleep                                 *)
(***************************************************************************)
\* max_retries: int = 3
max_retries == 3
\* retry_backoff_s: float = 0.8, in milliseconds
retry_backoff_ms == 800

\* what one requests.get can end with: an HTTP status, or 0 for no response at all
\* (connection error, timeout); a 200 whose body cannot be read counts as 0
HttpOutcomes == {200, 400, 401, 403, 500, 0}

\* the fatal statuses without 400
IsFatal_no400(code) == code \in {401, 403}

\* lines 99-104: the statuses answered with ProviderError inside the try block
IsFatal(code) == code \in {401, 403, 400}

\* a backoff that does not grow with the attempt number
BackoffSleep_flat(attempt) == retry_backoff_ms

\* line 133: time.sleep(retry_backoff_s * attempt), in milliseconds
BackoffSleep(attempt) == retry_backoff_ms * attempt

\* the number of wait() calls of thread p that have returned
WaitsDone(p) == Cardinality({i \in DOMAIN rl_log : rl_log[i].by = p})

\* lines 64-85: the checks before the loop
BeginFetch(f, t, from, to, w) ==
    LET f0 == [IdleFb EXCEPT !.key = f.key, !.w0 = w]
    IN IF ~f.key THEN [f0 EXCEPT !.pc = "raised"]
       ELSE IF t = <<>> THEN [f0 EXCEPT !.pc = "returned"]
       ELSE IF from.k # "date" \/ to.k # "date" THEN [f0 EXCEPT !.pc = "raised"]
       ELSE IF IsNone(EffectiveRange(from.d, to.d)) THEN [f0 EXCEPT !.pc = "returned"]
       ELSE [f0 EXCEPT !.pc = "loop", !.attempt = 1,
                       !.df = Val(EffectiveRange(from.d, to.d))[1],
                       !.dt = Val(EffectiveRange(from.d, to.d))[2]]

\* confirm_symbol calls fetch_bars(sym.ticker, a.isoformat(), b.isoformat()) for its current gap
fetch_bars_begin(p) ==
    /\ loc[p].pc = "fetch"
    /\ fb[p].pc = "off"
    /\ LET g == loc[p].missing_ranges[loc[p].gi]
       IN fb' = [fb EXCEPT ![p] =
                   BeginFetch(@, loc[p].ticker, IsoDate(g[1]), IsoDate(g[2]), WaitsDone(p))]
    /\ UNCHANGED <<confvars, limvars, news, dd>>

\* a retry that goes to the request without calling wait() again
fetch_bars_wait_once(p) ==
    /\ fb[p].pc = "loop"
    /\ fb' = [fb EXCEPT ![p] = [@ EXCEPT !.pc = "in_wait",
                                         !.waits = IF fb[p].attempt = 1 THEN @ + 1 ELSE @]]
    /\ UNCHANGED <<confvars, limvars, news, dd>>

\* top of the loop body: polygon_limiter.wait() is called
fetch_bars_wait(p) ==
    /\ fb[p].pc = "loop"
    /\ fb' = [fb EXCEPT ![p] = [@ EXCEPT !.pc = "in_wait", !.waits = @ + 1]]
    /\ UNCHANGED <<confvars, limvars, news, dd>>

\* the thread inside fetch_bars enters wait(): it takes the limiter's lock
wait_enter(p) ==
    /\ fb[p].pc = "in_wait"
    /\ WaitsDone(p) < fb[p].w0 + fb[p].waits
    /\ rl_acquire(p)

\* what the loop does with the outcome of attempt number f.attempt
AfterRequest(f, code, now) ==
    LET g == [f EXCEPT !.http = @ + 1, !.code = code]
    IN IF code = 200 THEN [g EXCEPT !.pc = "returned", !.rows = ProviderRows(f.df, f.dt)]
       ELSE IF IsFatal(code) THEN [g EXCEPT !.pc = "raised"]
       ELSE IF f.attempt < max_retries
            THEN [g EXCEPT !.pc = "backoff",
                           !.sleeps = Append(@, BackoffSleep(f.attempt)),
                           !.wake = now * 1000 + BackoffSleep(f.attempt)]
            ELSE [g EXCEPT !.pc = "raised"]

\* wait() has returned: requests.get is sent and answered (or not)
fetch_bars_request(p, code) ==
    /\ fb[p].pc = "in_wait"
    /\ thr[p].pc = "out"
    /\ WaitsDone(p) = fb[p].w0 + fb[p].waits
    /\ fb' = [fb EXCEPT ![p] = AfterRequest(@, code, clock)]
    /\ UNCHANGED <<confvars, limvars, news, dd>>

\* time.sleep returns, not before the requested duration has passed: next attempt
fetch_bars_retry(p) ==
    /\ fb[p].pc = "backoff"
    /\ clock * 1000 >= fb[p].wake
    /\ fb' = [fb EXCEPT ![p] = [@ EXCEPT !.pc = "loop", !.attempt = @ + 1]]
    /\ UNCHANGED <<confvars, limvars, news, dd>>

\* fetch_bars is left
EndFetch(f) == [IdleFb EXCEPT !.key = f.key]

\* lines 456-459: fetch_bars raised, confirm_symbol answers 502
confirm_fetch_raised(p) ==
    /\ loc[p].pc = "fetch"
    /\ fb[p].pc = "raised"
    /\ loc' = [loc EXCEPT ![p] = OnFetchError(@)]
    /\ fb' = [fb EXCEPT ![p] = EndFetch(@)]
    /\ UNCHANGED <<symbols, bars, quotes, today, calls, last_ok, limvars, news, dd>>

\* lines 449-455, 461: fetch_bars returned its rows
confirm_fetch_returned(p) ==
    /\ loc[p].pc = "fetch"
    /\ fb[p].pc = "returned"
    /\ LET out == fb[p].rows
       IN loc' = [loc EXCEPT ![p] = [@ EXCEPT !.pc = "commit_batch", !.rows = out,
                                              !.fetches = @ + 1,
                                              !.fetched = @ \cup {out[i] : i \in DOMAIN out},
                                              !.bars_fetched = @ + Len(out)]]
    /\ fb' = [fb EXCEPT ![p] = EndFetch(@)]
    /\ UNCHANGED <<symbols, bars, quotes, today, calls, last_ok, limvars, news, dd>>

\* number of confirm requests served in one behaviour with fetch_bars step by step
MaxFetchCalls == 1
\* what the clients ask for then
FetchTickers == {<<"a">>}
FetchStarts == {IsoDate(990)}
FetchEnds == {IsoDate(997)}
\* the threads that serve these requests; the other threads call wait() for requests of their own
FetchWorkers == {1}
\* the amounts by which the clock is seen to advance then, in seconds
FetchClockSteps == {6, 12}

\* MASSIVE_API_KEY is read once, when the module is loaded: set or missing; the symbol
\* is new, or is stored with its metadata by an earlier run of the service
InitFetch ==
    /\ InitTables
    /\ dd = NoDedupe
    /\ symbols \in {<<>>, <<[ticker |-> <<"A">>, name |-> Some("Apple"),
                            exchange |-> Some("NASDAQ")]>>}
    /\ \E k \in BOOLEAN : fb = [p \in Workers |-> [IdleFb EXCEPT !.key = k]]

NextFetch ==
    \/ \E p \in FetchWorkers, raw \in FetchTickers, s \in FetchStarts, e \in FetchEnds :
           get_or_create_symbol(p, raw, s, e, MaxFetchCalls)
    \/ \E p \in FetchWorkers : create_symbol(p)
    \/ \E p \in FetchWorkers : ensure_symbol_metadata_skip(p)
    \/ \E p \in FetchWorkers, meta \in Profiles : ensure_symbol_metadata_fetch(p, meta)
    \/ \E p \in FetchWorkers : ensure_symbol_metadata_error(p)
    \/ \E p \in FetchWorkers, qts \in QuoteTimes : quote_refresh_ok(p, qts)
    \/ \E p \in FetchWorkers : quote_refresh_fail(p)
    \/ \E p \in FetchWorkers : query_oldest(p)
    \/ \E p \in FetchWorkers : query_latest(p)
    \/ \E p \in FetchWorkers : fetch_bars_begin(p)
    \/ \E p \in FetchWorkers : fetch_bars_wait(p)
    \/ \E p \in FetchWorkers : wait_enter(p)
    \/ \E p \in Workers \ FetchWorkers : rl_acquire(p)
    \/ \E p \in Workers : rl_check(p)
    \/ \E p \in Workers : rl_wake(p)
    \/ \E p \in Workers : rl_advance(p)
    \/ \E p \in FetchWorkers, code \in HttpOutcomes : fetch_bars_request(p, code)
    \/ \E p \in FetchWorkers : fetch_bars_retry(p)
    \/ \E p \in FetchWorkers : confirm_fetch_raised(p)
    \/ \E p \in FetchWorkers : confirm_fetch_returned(p)
    \/ \E p \in FetchWorkers : commit_batch(p)
    \/ \E p \in FetchWorkers : commit_row(p)
    \/ \E p \in FetchWorkers : confirm_return(p)
    \/ \E d \in FetchClockSteps : Tick(d)

SpecFetch == InitFetch /\ [][NextFetch]_vars

(***************************************************************************)
(* fetch_bars called with arbitrary arguments                              *)
(***************************************************************************)
\* fetch_bars(ticker, date_from, date_to) is called: lines 64-85 run
fetch_bars_call(p, raw, from, to, max) ==
    /\ loc[p].pc \in {"idle", "done"}
    /\ fb[p].pc = "off"
    /\ calls < max
    /\ calls' = calls + 1
    /\ loc' = [loc EXCEPT ![p] = [IdleLoc EXCEPT !.op = "fetch_bars", !.pc = "bars_call",
                                               !.ticker = raw, !.start = from, !.end = to]]
    /\ fb' = [fb EXCEPT ![p] = BeginFetch(@, NormTicker(raw), from, to, WaitsDone(p))]
    /\ UNCHANGED <<symbols, bars, quotes, today, last_ok, limvars, news, dd>>

\* fetch_bars returns its rows or raises ProviderError to its caller
fetch_bars_exit(p) ==
    /\ loc[p].pc = "bars_call"
    /\ fb[p].pc \in {"raised", "returned"}
    /\ loc' = [loc EXCEPT ![p] =
                 IF fb[p].pc = "raised" THEN Fail(@, "provider_error") ELSE Done(@, "ok")]
    /\ fb' = [fb EXCEPT ![p] = EndFetch(@)]
    /\ UNCHANGED <<symbols, bars, quotes, today, calls, last_ok, limvars, news, dd>>

\* number of fetch_bars calls in one behaviour
MaxBarsCalls == 2
\* the arguments of the calls: dates before and after the provider floor, malformed strings
BarsTickers == {<<"a">>, <<" ">>}
BarsFroms == {BadDate, IsoDate(0 - 5), IsoDate(0 - 2), IsoDate(3)}
BarsTos == {BadDate, IsoDate(0 - 3), IsoDate(5)}
\* the amounts by which the clock is seen to advance then, in seconds
BarsClockSteps == {12}

\* MASSIVE_API_KEY is read once, when the module is loaded: set or missing
InitBars ==
    /\ InitTables
    /\ symbols = <<>>
    /\ dd = NoDedupe
    /\ \E k \in BOOLEAN : fb = [p \in Workers |-> [IdleFb EXCEPT !.key = k]]

NextBars ==
    \/ \E p \in FetchWorkers, raw \in BarsTickers, from \in BarsFroms, to \in BarsTos :
           fetch_bars_call(p, raw, from, to, MaxBarsCalls)
    \/ \E p \in FetchWorkers : fetch_bars_wait(p)
    \/ \E p \in FetchWorkers : wait_enter(p)
    \/ \E p \in Workers \ FetchWorkers : rl_acquire(p)
    \/ \E p \in Workers : rl_check(p)
    \/ \E p \in Workers : rl_wake(p)
    \/ \E p \in Workers : rl_advance(p)
    \/ \E p \in FetchWorkers, code \in HttpOutcomes : fetch_bars_request(p, code)
    \/ \E p \in FetchWorkers : fetch_bars_retry(p)
    \/ \E p \in FetchWorkers : fetch_bars_exit(p)
    \/ \E d \in BarsClockSteps : Tick(d)

SpecBars == InitBars /\ [][NextBars]_vars

(***************************************************************************)
(* Callers of RateLimiter.wait() under fair scheduling                     *)
(***************************************************************************)
\* the wait() calls made and not yet returned
PendingWaits == {q \in Workers : fb[q].pc = "in_wait"}

\* a thread calls polygon_limiter.wait(); it blocks on the lock until wait_enter
wait_call(p) ==
    /\ fb[p].pc = "off"
    /\ Len(rl_log) + Cardinality(PendingWaits) < MaxWaits
    /\ fb' = [fb EXCEPT ![p] = [IdleFb EXCEPT !.key = fb[p].key, !.pc = "in_wait",
                                             !.w0 = WaitsDone(p), !.waits = 1]]
    /\ UNCHANGED <<confvars, limvars, news, dd>>

\* wait() has returned to its caller
wait_return(p) ==
    /\ fb[p].pc = "in_wait"
    /\ thr[p].pc = "out"
    /\ WaitsDone(p) = fb[p].w0 + fb[p].waits
    /\ fb' = [fb EXCEPT ![p] = EndFetch(@)]
    /\ UNCHANGED <<confvars, limvars, news, dd>>

\* time passes, and does not stop while a thread sleeps
TickLive(d) ==
    /\ \/ clock + d <= MaxClock
       \/ \E p \in Workers : thr[p].pc = "sleeping" /\ thr[p].wake > clock
    /\ clock' = clock + d
    /\ UNCHANGED <<lock, next_allowed, thr, rl_log, confvars, restvars>>

\* the amounts by which the clock is seen to advance then, in seconds
LiveClockSteps == {6, 12}

NextWait ==
    \/ \E p \in Workers : wait_call(p)
    \/ \E p \in Workers : wait_enter(p)
    \/ \E p \in Workers : rl_check(p)
    \/ \E p \in Workers : rl_wake(p)
    \/ \E p \in Workers : rl_advance(p)
    \/ \E p \in Workers : wait_return(p)
    \/ \E d \in LiveClockSteps : TickLive(d)

\* a running thread takes its next step, the lock is fair to the threads blocked on it,
\* a sleep ends when its time has passed, and time passes
FairWait ==
    /\ \A p \in Workers : SF_vars(wait_enter(p))
    /\ \A p \in Workers : WF_vars(rl_check(p))
    /\ \A p \in Workers : WF_vars(rl_wake(p))
    /\ \A p \in Workers : WF_vars(rl_advance(p))
    /\ \A p \in Workers : WF_vars(wait_return(p))
    /\ WF_vars(\E d \in LiveClockSteps : TickLive(d))

SpecWait == Init /\ [][NextWait]_vars /\ FairWait



(***************************************************************************)
(* dedupe_headlines (main.py)                                              *)
(***************************************************************************)
\* the key without lowercasing
DedupeKey_nocase(h) == IF strip(h.url) # <<>> THEN strip(h.url) ELSE strip(h.title)

\* lines 112-114: key = (url.lower() if url else title.lower()), of the stripped strings
DedupeKey(h) ==
    LET title == strip(h.title)
        url == strip(h.url)
    IN IF url # <<>> THEN lower(url) ELSE lower(title)

\* lines 111-120: the loop over the items not yet visited, with seen and out so far
RECURSIVE DedupeLoop(_, _, _, _)
DedupeLoop(items, limit, seen, out) ==
    IF items = <<>> THEN out
    ELSE LET h == Head(items)
             key == DedupeKey(h)
         IN IF key = <<>> \/ key \in seen
            THEN DedupeLoop(Tail(items), limit, seen, out)
            ELSE IF Len(out) + 1 >= limit
                 THEN Append(out, h)
                 ELSE DedupeLoop(Tail(items), limit, seen \cup {key}, Append(out, h))

dedupe_headlines(items, limit) == DedupeLoop(items, limit, {}, <<>>)

\* the longest list given to dedupe_headlines
MaxItems == 3
\* the headlines the lists are made of
DedupeItems ==
    {[title |-> t, url |-> u] : t \in {<<>>, <<"a">>, <<"T">>},
                                u \in {<<>>, <<"A">>, <<" ", "a">>, <<"b">>}}
DedupeLimits == {1, 2, 5}

\* a call of dedupe_headlines with a list and a limit
InitDedupe ==
    /\ InitService
    /\ \E n \in 0..MaxItems, l \in DedupeLimits :
          \E it \in [1..n -> DedupeItems] :
              dd = [items |-> it, limit |-> l, out |-> <<>>, pc |-> "call"]

\* the call returns
dedupe_call ==
    /\ dd.pc = "call"
    /\ dd' = [dd EXCEPT !.out = dedupe_headlines(dd.items, dd.limit), !.pc = "done"]
    /\ UNCHANGED <<confvars, limvars, fb, news>>

NextDedupe == dedupe_call

SpecDedupe == InitDedupe /\ [][NextDedupe]_vars


(***************************************************************************)
(* news_for_day (main.py): cache-or-fetch over the news_articles table     *)
(***************************************************************************)
\* number of news requests served in one behaviour
MaxNewsCalls == 3
\* what the clients ask for
NewsDays == {NoDate, BadDate, IsoDate(10), IsoDate(11)}
NewsLimits == {5, 6}

\* a headline as the provider returns it; published_at may be absent
Headline(t, u, pub) == [title |-> t, url |-> u, pub |-> pub]

\* what the news provider may answer for a day, before its LIMIT is applied; the answer
\* to the same question may differ from one request to the next
NewsResponses(d) ==
    IF d = 10
    THEN {<<>>,
          <<Headline(<<"a">>, <<"x">>, Some(5)), Headline(<<"b">>, <<"y">>, Some(4))>>,
          <<Headline(<<"T">>, <<"X">>, Some(6)), Headline(<<"t">>, <<"x", " ">>, Some(3))>>,
          <<Headline(<<"a">>, <<"x">>, Some(9)), Headline(<<"b">>, <<"y">>, Some(8)),
            Headline(<<"a">>, <<"z">>, Some(7)), Headline(<<"a">>, <<"u">>, Some(6)),
            Headline(<<"a">>, <<"v">>, Some(5)), Headline(<<"a">>, <<"w">>, Some(4))>>}
    ELSE {<<Headline(<<"a", " ">>, <<>>, None), Headline(<<"b">>, <<" ", "y">>, Some(3)),
            Headline(<<"a">>, <<"z">>, Some(2))>>}

\* LIMIT @limit of the provider's query (gdelt.py)
Truncate(q, n) == SubSeq(q, 1, Min(Len(q), n))

\* lines 336-345: title and url are stripped
Normalize(q) == [i \in DOMAIN q |-> [q[i] EXCEPT !.title = strip(@), !.url = strip(@)]]

\* the ids of the articles stored for (symbol, day)
StoredIds(tab, sid, day) == {i \in DOMAIN tab : tab[i].symbol_id = sid /\ tab[i].day = day}

\* order_by(published_at.desc().nullslast(), created_at.desc()): the article that comes first
PubKey(r) == IF IsNone(r.pub) THEN -1 ELSE Val(r.pub)
FirstOf(tab, ids) ==
    CHOOSE i \in ids : \A j \in ids :
        \/ PubKey(tab[i]) > PubKey(tab[j])
        \/ (PubKey(tab[i]) = PubKey(tab[j]) /\ i >= j)

RECURSIVE Ordered(_, _)
Ordered(tab, ids) ==
    IF ids = {} THEN <<>> ELSE <<FirstOf(tab, ids)>> \o Ordered(tab, ids \ {FirstOf(tab, ids)})

\* lines 305-311: the cache query, at most limit * 3 rows
CachedRows(tab, sid, day, limit) == Truncate(Ordered(tab, StoredIds(tab, sid, day)), limit * 3)

\* lines 314-322: the cached rows as headlines
RawOf(tab, ids) == [i \in DOMAIN ids |-> Headline(tab[ids[i]].title, tab[ids[i]].url, tab[ids[i]].pub)]

\* GET /news arrives: the day is parsed, get_or_create_symbol normalises the ticker and looks it up
news_for_day(p, raw, day, limit, max) ==
    /\ loc[p].pc \in {"idle", "done"}
    /\ calls < max
    /\ calls' = calls + 1
    /\ LET t == NormTicker(raw)
           found == SymbolByTicker(symbols, t)
           l0 == [IdleLoc EXCEPT !.op = "news", !.ticker = t, !.day = day, !.limit = limit]
       IN loc' = [loc EXCEPT ![p] =
                    IF day.k = "bad" THEN Fail(l0, "bad_date")
                    ELSE IF day.k = "none" THEN Fail(l0, "assertion_error")
                    ELSE IF t = <<>> THEN Fail(l0, "value_error")
                    ELSE IF IsNone(found) THEN [l0 EXCEPT !.pc = "create_symbol"]
                    ELSE [l0 EXCEPT !.pc = "ensure_metadata", !.sym = Val(found),
                                    !.name_loaded = symbols[Val(found)].name]]
    /\ UNCHANGED <<symbols, bars, quotes, today, last_ok, limvars, restvars>>

\* a cache query that never finds anything
CacheLookup_miss(tab, sid, day, limit) == <<>>

\* the ids the cache query returns
CacheLookup(tab, sid, day, limit) == CachedRows(tab, sid, day, limit)

\* lines 305-324: the cache query; when it finds rows they are deduplicated and returned
news_cache_query(p) ==
    /\ loc[p].pc = "news_cache"
    /\ LET cached == CacheLookup(news, loc[p].sym, loc[p].day.d, loc[p].limit)
       IN loc' = [loc EXCEPT ![p] =
                    IF cached # <<>>
                    THEN [@ EXCEPT !.pc = "news_finish", !.hit = TRUE,
                                   !.at_check = StoredIds(news, loc[p].sym, loc[p].day.d),
                                   !.headlines = dedupe_headlines(RawOf(news, cached), loc[p].limit)]
                    ELSE [@ EXCEPT !.pc = "news_provider",
                                   !.at_check = StoredIds(news, loc[p].sym, loc[p].day.d)]]
    /\ UNCHANGED <<symbols, bars, quotes, today, calls, last_ok, limvars, restvars>>

\* a provider failure taken for an empty answer
news_provider_error_swallow(p) ==
    /\ loc[p].pc = "news_provider"
    /\ loc' = [loc EXCEPT ![p] = [@ EXCEPT !.pc = "news_commit", !.prov = "failed",
                                           !.headlines = <<>>]]
    /\ UNCHANGED <<symbols, bars, quotes, today, calls, last_ok, limvars, restvars>>

\* lines 326-334: get_headlines_for_day_bigquery raised: HTTP 502
news_provider_error(p) ==
    /\ loc[p].pc = "news_provider"
    /\ loc' = [loc EXCEPT ![p] = Fail(@, "news_upstream_error")]
    /\ UNCHANGED <<symbols, bars, quotes, today, calls, last_ok, limvars, restvars>>

\* lines 326-347: the provider answered; its headlines are normalised and deduplicated
news_provider_ok(p, resp) ==
    /\ loc[p].pc = "news_provider"
    /\ loc' = [loc EXCEPT ![p] =
                 [@ EXCEPT !.pc = "news_commit", !.prov = "ok",
                           !.headlines = dedupe_headlines(Normalize(Truncate(resp, loc[p].limit)),
                                                          loc[p].limit)]]
    /\ UNCHANGED <<symbols, bars, quotes, today, calls, last_ok, limvars, restvars>>

\* NewsArticle(symbol_id=sym.id, day=day_date, title=..., url=..., published_at=...)
ArticleRow(sid, day, h) ==
    [symbol_id |-> sid, day |-> day, title |-> h.title, url |-> h.url, pub |-> h.pub]

\* uq_news_symbol_url: inserting the rows violates the constraint
NewsInsertConflicts(tab, rs) ==
    \/ \E i \in DOMAIN rs, j \in DOMAIN tab :
          tab[j].symbol_id = rs[i].symbol_id /\ tab[j].url = rs[i].url
    \/ \E i, j \in DOMAIN rs :
          i # j /\ rs[i].symbol_id = rs[j].symbol_id /\ rs[i].url = rs[j].url

\* a commit that on conflict overwrites the stored articles of the same URL
news_commit_upsert(p) ==
    /\ loc[p].pc = "news_commit"
    /\ LET to_insert == [i \in DOMAIN loc[p].headlines |->
                            ArticleRow(loc[p].sym, loc[p].day.d, loc[p].headlines[i])]
           Same(r, i) == news[i].symbol_id = r.symbol_id /\ news[i].url = r.url
       IN IF NewsInsertConflicts(news, to_insert)
          THEN /\ news' = [i \in DOMAIN news |->
                             IF \E n \in DOMAIN to_insert : Same(to_insert[n], i)
                             THEN to_insert[CHOOSE n \in DOMAIN to_insert : Same(to_insert[n], i)]
                             ELSE news[i]]
               /\ loc' = [loc EXCEPT ![p] = [@ EXCEPT !.pc = "news_finish"]]
          ELSE /\ news' = news \o to_insert
               /\ loc' = [loc EXCEPT ![p] =
                            [@ EXCEPT !.pc = "news_finish",
                                      !.ins = (Len(news) + 1)..(Len(news) + Len(to_insert))]]
    /\ UNCHANGED <<symbols, bars, quotes, today, calls, last_ok, limvars, fb, dd>>

\* lines 349-369: db.add_all(to_insert); db.commit(); on IntegrityError db.rollback()
news_commit(p) ==
    /\ loc[p].pc = "news_commit"
    /\ LET to_insert == [i \in DOMAIN loc[p].headlines |->
                            ArticleRow(loc[p].sym, loc[p].day.d, loc[p].headlines[i])]
       IN IF NewsInsertConflicts(news, to_insert)
          THEN /\ news' = news
               /\ loc' = [loc EXCEPT ![p] = [@ EXCEPT !.pc = "news_finish"]]
          ELSE /\ news' = news \o to_insert
               /\ loc' = [loc EXCEPT ![p] =
                            [@ EXCEPT !.pc = "news_finish",
                                      !.ins = (Len(news) + 1)..(Len(news) + Len(to_insert))]]
    /\ UNCHANGED <<symbols, bars, quotes, today, calls, last_ok, limvars, fb, dd>>

\* lines 324, 369: the headlines are returned
news_return(p) ==
    /\ loc[p].pc = "news_finish"
    /\ loc' = [loc EXCEPT ![p] = Done(@, "ok")]
    /\ UNCHANGED <<symbols, bars, quotes, today, calls, last_ok, limvars, restvars>>

\* fetch_profile responses for the news requests
NewsProfiles == Profiles \cup {[name |-> None, exchange |-> Some("NYSE")]}

\* news requests of the workers W, at most max of them
ServeNews(W, max) ==
    \/ \E p \in W, raw \in RawTickers, day \in NewsDays, limit \in NewsLimits :
           news_for_day(p, raw, day, limit, max)
    \/ \E p \in W : create_symbol(p)
    \/ \E p \in W : ensure_symbol_metadata_skip(p)
    \/ \E p \in W, meta \in NewsProfiles : ensure_symbol_metadata_fetch(p, meta)
    \/ \E p \in W : ensure_symbol_metadata_error(p)
    \/ \E p \in W : news_cache_query(p)
    \/ \E p \in W : news_provider_error(p)
    \/ \E p \in W : \E resp \in NewsResponses(loc[p].day.d) : news_provider_ok(p, resp)
    \/ \E p \in W : news_commit(p)
    \/ \E p \in W : news_return(p)

NextNews == ServeNews(Workers, MaxNewsCalls)

SpecNews == Init /\ [][NextNews]_vars


(***************************************************************************)
(* The other endpoints of main.py: add_symbol, ingest_quote, latest_quote, *)
(* prices_range                                                            *)
(***************************************************************************)
\* POST /symbols: ticker = payload.ticker.strip().upper(); the row is inserted, a ticker
\* already stored raises IntegrityError
add_symbol(p, raw, max) ==
    /\ loc[p].pc \in {"idle", "done"}
    /\ calls < max
    /\ calls' = calls + 1
    /\ LET t == upper(strip(raw))
           l0 == [IdleLoc EXCEPT !.op = "add_symbol", !.ticker = t]
       IN IF SymbolInsertConflicts(symbols, t)
          THEN /\ loc' = [loc EXCEPT ![p] = Fail(l0, "integrity_error")]
               /\ UNCHANGED symbols
          ELSE /\ symbols' = Append(symbols, [ticker |-> t, name |-> None, exchange |-> None])
               /\ loc' = [loc EXCEPT ![p] = Done(l0, "ok")]
    /\ UNCHANGED <<bars, quotes, today, last_ok, limvars, restvars>>

\* lines 176-180, 202-206, 238-241: the symbol is looked up, a missing one is a 404
LookupOrNotFound(l0, tab, next) ==
    IF IsNone(SymbolByTicker(tab, l0.ticker)) THEN Fail(l0, "not_found")
    ELSE [l0 EXCEPT !.pc = next, !.sym = Val(SymbolByTicker(tab, l0.ticker))]

\* POST /ingest/quote/{ticker} arrives
ingest_quote(p, raw, max) ==
    /\ loc[p].pc \in {"idle", "done"}
    /\ calls < max
    /\ calls' = calls + 1
    /\ loc' = [loc EXCEPT ![p] =
                 LookupOrNotFound([IdleLoc EXCEPT !.op = "ingest", !.ticker = NormTicker(raw)],
                                  symbols, "ingest_fetch")]
    /\ UNCHANGED <<symbols, bars, quotes, today, last_ok, limvars, restvars>>

\* lines 182-197: fetch_quote answered, the Quote row is committed and returned
ingest_quote_ok(p, qts) ==
    /\ loc[p].pc = "ingest_fetch"
    /\ quotes' = quotes (+) SetToBag({QuoteRow(quotes, loc[p].sym, qts)})
    /\ loc' = [loc EXCEPT ![p] = Done(@, "ok")]
    /\ UNCHANGED <<symbols, bars, today, calls, last_ok, limvars, restvars>>

\* line 182: fetch_quote raised, nothing catches it
ingest_quote_error(p) ==
    /\ loc[p].pc = "ingest_fetch"
    /\ loc' = [loc EXCEPT ![p] = Fail(@, "quote_error")]
    /\ UNCHANGED <<symbols, bars, quotes, today, calls, last_ok, limvars, restvars>>

\* GET /quotes/latest/{ticker} arrives
latest_quote(p, raw, max) ==
    /\ loc[p].pc \in {"idle", "done"}
    /\ calls < max
    /\ calls' = calls + 1
    /\ loc' = [loc EXCEPT ![p] =
                 LookupOrNotFound([IdleLoc EXCEPT !.op = "latest", !.ticker = NormTicker(raw)],
                                  symbols, "latest_query")]
    /\ UNCHANGED <<symbols, bars, quotes, today, last_ok, limvars, restvars>>

\* the quotes of a symbol
QuotesOf(tab, sid) == {r \in BagToSet(tab) : r.symbol_id = sid}

\* the rows the query would return first if it ordered by id
LatestRows_byid(tab, sid) ==
    {r \in QuotesOf(tab, sid) : \A q \in QuotesOf(tab, sid) : q.id <= r.id}

\* lines 208-213: order_by(Quote.quote_ts.desc()).first(): a row of the greatest quote_ts
LatestRows(tab, sid) ==
    {r \in QuotesOf(tab, sid) : \A q \in QuotesOf(tab, sid) : q.quote_ts <= r.quote_ts}

\* lines 208-216: the query; no row is a 404
latest_quote_query(p) ==
    /\ loc[p].pc = "latest_query"
    /\ IF LatestRows(quotes, loc[p].sym) = {}
       THEN loc' = [loc EXCEPT ![p] = Fail(@, "not_found")]
       ELSE \E r \in LatestRows(quotes, loc[p].sym) :
                loc' = [loc EXCEPT ![p] = [@ EXCEPT !.pc = "latest_finish", !.res = Some(r)]]
    /\ UNCHANGED <<symbols, bars, quotes, today, calls, last_ok, limvars, restvars>>

\* line 216: the row is returned
latest_quote_return(p) ==
    /\ loc[p].pc = "latest_finish"
    /\ loc' = [loc EXCEPT ![p] = Done(@, "ok")]
    /\ UNCHANGED <<symbols, bars, quotes, today, calls, last_ok, limvars, restvars>>

\* GET /prices/range arrives
prices_range(p, raw, max) ==
    /\ loc[p].pc \in {"idle", "done"}
    /\ calls < max
    /\ calls' = calls + 1
    /\ loc' = [loc EXCEPT ![p] =
                 LookupOrNotFound([IdleLoc EXCEPT !.op = "range", !.ticker = NormTicker(raw)],
                                  symbols, "range_query")]
    /\ UNCHANGED <<symbols, bars, quotes, today, last_ok, limvars, restvars>>

\* lines 243-269: min, max and count of the symbol's "1d" bars
prices_range_query(p) ==
    /\ loc[p].pc = "range_query"
    /\ loc' = [loc EXCEPT ![p] =
                 [@ EXCEPT !.pc = "range_finish",
                           !.res = IF IsNone(OldestDate(bars, loc[p].sym))
                                   THEN Some(<<None, None, 0>>)
                                   ELSE Some(<<OldestDate(bars, loc[p].sym),
                                               LatestDate(bars, loc[p].sym),
                                               Cardinality(BarTsOf(bars, loc[p].sym))>>)]]
    /\ UNCHANGED <<symbols, bars, quotes, today, calls, last_ok, limvars, restvars>>

prices_range_return(p) ==
    /\ loc[p].pc = "range_finish"
    /\ loc' = [loc EXCEPT ![p] = Done(@, "ok")]
    /\ UNCHANGED <<symbols, bars, quotes, today, calls, last_ok, limvars, restvars>>

\* number of requests served in one behaviour when every endpoint is called
MaxStoreCalls == 2
\* quote timestamps the quote provider may report then
StoreQuoteTimes == {7, 9}
\* what the clients of confirm ask for then
StoreStarts == {IsoDate(990)}
StoreEnds == {IsoDate(997)}

\* every endpoint, called by the workers W, at most max requests
ServeAll(W, max) ==
    \/ \E p \in W, raw \in RawTickers, s \in StoreStarts, e \in StoreEnds :
           get_or_create_symbol(p, raw, s, e, max)
    \/ \E p \in W, raw \in RawTickers, day \in NewsDays, limit \in NewsLimits :
           news_for_day(p, raw, day, limit, max)
    \/ \E p \in W, raw \in RawTickers : add_symbol(p, raw, max)
    \/ \E p \in W, raw \in RawTickers : ingest_quote(p, raw, max)
    \/ \E p \in W, raw \in RawTickers : latest_quote(p, raw, max)
    \/ \E p \in W, raw \in RawTickers : prices_range(p, raw, max)
    \/ \E p \in W : create_symbol(p)
    \/ \E p \in W : ensure_symbol_metadata_skip(p)
    \/ \E p \in W, meta \in NewsProfiles : ensure_symbol_metadata_fetch(p, meta)
    \/ \E p \in W : ensure_symbol_metadata_error(p)
    \/ \E p \in W, qts \in StoreQuoteTimes : quote_refresh_ok(p, qts)
    \/ \E p \in W : quote_refresh_fail(p)
    \/ \E p \in W : query_oldest(p)
    \/ \E p \in W : query_latest(p)
    \/ \E p \in W : confirm_fetch_error(p)
    \/ \E p \in W : confirm_fetch_ok(p)
    \/ \E p \in W : commit_batch(p)
    \/ \E p \in W : commit_row(p)
    \/ \E p \in W : confirm_return(p)
    \/ \E p \in W : news_cache_query(p)
    \/ \E p \in W : news_provider_error(p)
    \/ \E p \in W : \E resp \in NewsResponses(loc[p].day.d) : news_provider_ok(p, resp)
    \/ \E p \in W : news_commit(p)
    \/ \E p \in W : news_return(p)
    \/ \E p \in W, qts \in StoreQuoteTimes : ingest_quote_ok(p, qts)
    \/ \E p \in W : ingest_quote_error(p)
    \/ \E p \in W : latest_quote_query(p)
    \/ \E p \in W : latest_quote_return(p)
    \/ \E p \in W : prices_range_query(p)
    \/ \E p \in W : prices_range_return(p)

NextStore == ServeAll(Workers, MaxStoreCalls)

SpecStore == Init /\ [][NextStore]_vars

\* number of requests served in one behaviour of the quote endpoints
MaxQuoteCalls == 3

\* the endpoints that write or read quotes, and those that create the symbols
NextQuote ==
    \/ \E p \in Workers, raw \in RawTickers, s \in StoreStarts, e \in StoreEnds :
           get_or_create_symbol(p, raw, s, e, MaxQuoteCalls)
    \/ \E p \in Workers, raw \in RawTickers : add_symbol(p, raw, MaxQuoteCalls)
    \/ \E p \in Workers, raw \in RawTickers : ingest_quote(p, raw, MaxQuoteCalls)
    \/ \E p \in Workers, raw \in RawTickers : latest_quote(p, raw, MaxQuoteCalls)
    \/ \E p \in Workers : create_symbol(p)
    \/ \E p \in Workers : ensure_symbol_metadata_skip(p)
    \/ \E p \in Workers, meta \in Profiles : ensure_symbol_metadata_fetch(p, meta)
    \/ \E p \in Workers : ensure_symbol_metadata_error(p)
    \/ \E p \in Workers, qts \in StoreQuoteTimes : quote_refresh_ok(p, qts)
    \/ \E p \in Workers : quote_refresh_fail(p)
    \/ \E p \in Workers : query_oldest(p)
    \/ \E p \in Workers : query_latest(p)
    \/ \E p \in Workers : confirm_fetch_error(p)
    \/ \E p \in Workers : confirm_fetch_ok(p)
    \/ \E p \in Workers : commit_batch(p)
    \/ \E p \in Workers : commit_row(p)
    \/ \E p \in Workers : confirm_return(p)
    \/ \E p \in Workers, qts \in StoreQuoteTimes : ingest_quote_ok(p, qts)
    \/ \E p \in Workers : ingest_quote_error(p)
    \/ \E p \in Workers : latest_quote_query(p)
    \/ \E p \in Workers : latest_quote_return(p)

SpecQuote == Init /\ [][NextQuote]_vars

(***************************************************************************)
(* Properties                                                              *)
(***************************************************************************)
\* positions of confirm_symbol after the range check
PostClamp == {"quote", "query_oldest", "query_latest", "fetch", "commit_batch", "row_by_row", "finish"}
\* positions of confirm_symbol after the gap list is computed
PostGaps == {"fetch", "commit_batch", "row_by_row", "finish"}

\* C1: a confirm repeated with the same parameters and the same today, right after a
\* successful one and with no bar written in between, inserts no Bar row, reports
\* bars_inserted = 0 and does not end in a uniqueness violation.
C1_RepeatedConfirmInsertsNothing ==
    [][\A p \in Workers :
         /\ loc'[p].rep => (loc'[p].bars_inserted = 0 /\ loc'[p].mine = {} /\ bars' = bars)
         /\ loc[p].rep => loc'[p].status \in {"none", "ok", "upstream_error"}
         /\ (loc[p].rep /\ loc'[p].status = "ok") => loc'[p].bars_inserted = 0]_vars

\* a repeated confirm is about to return, having fetched a gap again
C1_Witness ==
    \E p \in Workers : loc[p].rep /\ loc[p].pc = "finish" /\ loc[p].fetches > 0
                       /\ BarTsOf(bars, loc[p].sym) # {}

\* C2: the store holds at most one Bar per (symbol_id, timeframe, ts), whatever the
\* interleaving of confirms and although the provider repeats a timestamp in a batch.
C2_OneBarPerKey == \A r \in BagToSet(bars) : CopiesIn(r, bars) <= 1

\* a call fetched a bar that a concurrent call inserted first
C2_Witness ==
    \E p, q \in Workers :
        /\ p # q /\ loc[p].pc = "finish"
        /\ \E ts \in loc[p].fetched : BarRow(loc[p].sym, ts) \in loc[q].mine

\* C3: once its symbol is resolved a confirm never fails with a uniqueness violation;
\* in the row-by-row fallback a row is skipped only if it is already stored, and after
\* the merge of a gap every bar fetched so far is in the store.
C3_RaceIsPartialSuccess ==
    [][\A p \in Workers :
         /\ loc[p].pc \notin {"idle", "done", "create_symbol"}
               => loc'[p].status # "integrity_error"
         /\ loc'[p].pc \in {"fetch", "finish"}
               => \A ts \in loc'[p].fetched : BagIn(BarRow(loc'[p].sym, ts), bars')
         /\ (loc[p].pc = "row_by_row" /\ loc'[p] # loc[p])
               => LET b == BarRow(loc[p].sym, loc[p].rows[loc[p].ri])
                  IN /\ BagIn(b, bars')
                     /\ ~BagIn(b, bars) => /\ loc'[p].bars_inserted = loc[p].bars_inserted + 1
                                           /\ b \in loc'[p].mine]_vars

\* a call lost the race on one row to a concurrent call and still inserted its other rows
C3_Witness ==
    \E p, q \in Workers :
        /\ p # q /\ loc[p].pc = "finish" /\ loc[q].pc \in PostGaps
        /\ loc[p].bars_inserted > 0
        /\ \E ts \in loc[p].fetched : BarRow(loc[p].sym, ts) \in loc[q].mine

\* C4, the extent: when the requests are served one at a time, the extent the gap list
\* was computed from is the extent of the symbol's stored "1d" bars.
C4_ExtentRead ==
    \A p \in Workers :
        (loc[p].pc \in {"fetch", "finish"} /\ loc[p].fetches = 0) =>
            LET storedTs == {r.ts : r \in {x \in BagToSet(bars) :
                                           x.symbol_id = loc[p].sym /\ x.timeframe = "1d"}}
            IN /\ IsNone(loc[p].have_start) <=> storedTs = {}
               /\ IsNone(loc[p].have_end) <=> storedTs = {}
               /\ storedTs # {} =>
                     /\ \A ts \in storedTs : /\ Val(loc[p].have_start) <= ts \div 24
                                           /\ ts \div 24 <= Val(loc[p].have_end)
                     /\ \E ts \in storedTs : ts \div 24 = Val(loc[p].have_start)
                     /\ \E ts \in storedTs : ts \div 24 = Val(loc[p].have_end)

\* C4: the gap list is [[d_start, d_end]] when no extent was read; otherwise it holds the
\* left gap [d_start, have_start - 1] iff d_start < have_start, the right gap
\* [have_end + 1, d_end] iff d_end > have_end, left first, and nothing else.
C4_GapList ==
    /\ C4_ExtentRead
    /\ \A p \in Workers :
        loc[p].pc \in PostGaps =>
            LET g == loc[p].missing_ranges
                ds == loc[p].desired_start
                de == loc[p].desired_end
                hs == loc[p].have_start
                he == loc[p].have_end
            IN IF IsNone(hs) \/ IsNone(he)
               THEN g = << <<ds, de>> >>
               ELSE LET L == <<ds, Val(hs) - 1>>
                        R == <<Val(he) + 1, de>>
                    IN /\ Len(g) <= 2
                       /\ (\E i \in DOMAIN g : g[i] = L) <=> ds < Val(hs)
                       /\ (\E i \in DOMAIN g : g[i] = R) <=> de > Val(he)
                       /\ \A i \in DOMAIN g : g[i] \in {L, R}
                       /\ Len(g) = 2 => g = <<L, R>>
                       /\ (ds >= Val(hs) /\ de <= Val(he)) => g = <<>>
                       /\ de < Val(hs) => g = <<L>>

\* a call computed a left and a right gap around the stored coverage
C4_Witness ==
    \E p \in Workers : loc[p].pc = "fetch" /\ Len(loc[p].missing_ranges) = 2

\* C5: when confirm is about to return successfully, the store holds every bar the
\* provider has for a date of the clamped desired range.
C5_CoverageOnReturn ==
    \A p \in Workers :
        loc[p].pc = "finish" =>
            \A ts \in ProviderData :
                (loc[p].desired_start <= DateOf(ts) /\ DateOf(ts) <= loc[p].desired_end)
                    => BagIn(BarRow(loc[p].sym, ts), bars)

\* C5 holds when the requests are served one at a time; the three-request race breaks it.

\* C6: the resolved end is min(requested end or today, today - PROVIDER_DELAY_DAYS), the
\* resolved start is max(requested start or end - 365, end - MAX_HISTORY_DAYS); so
\* start <= end <= today - PROVIDER_DELAY_DAYS and end - start <= MAX_HISTORY_DAYS.
C6_PolicyClamps ==
    [][\A p \in Workers :
         loc'[p].pc \in PostClamp =>
            LET e == loc'[p].end
                s == loc'[p].start
                t == loc'[p].tdy
                de == loc'[p].desired_end
                ds == loc'[p].desired_start
                re == IF e.k = "none" THEN t ELSE e.d
                rs == IF s.k = "none" THEN de - 365 ELSE s.d
            IN /\ loc[p].pc = "ensure_metadata" => t = today
               /\ de = (IF re <= t - PROVIDER_DELAY_DAYS THEN re ELSE t - PROVIDER_DELAY_DAYS)
               /\ ds = (IF rs >= de - MAX_HISTORY_DAYS THEN rs ELSE de - MAX_HISTORY_DAYS)
               /\ ds <= de
               /\ de <= today' - PROVIDER_DELAY_DAYS
               /\ de - ds <= MAX_HISTORY_DAYS]_vars

\* a call whose omitted end was clamped to today - delay and whose early start was
\* raised to the history limit
C6_Witness ==
    \E p \in Workers :
        /\ loc[p].pc = "quote" /\ loc[p].end.k = "none" /\ loc[p].start.k = "date"
        /\ loc[p].desired_end = loc[p].tdy - PROVIDER_DELAY_DAYS
        /\ loc[p].desired_start > loc[p].start.d

C8_PartialFailure ==
    [][\A p \in Workers :
         (loc[p].pc = "fetch" /\ loc'[p] # loc[p] /\ loc'[p].pc # "commit_batch")
            => /\ loc'[p].pc = "done"
               /\ loc'[p].status = "upstream_error"
               /\ loc'[p].bars_inserted = loc[p].bars_inserted
               /\ \A b \in loc[p].mine : BagIn(b, bars')
               /\ bars' = bars]_vars

\* a call failed on its second gap after merging bars of its first
C8_Witness ==
    \E p \in Workers : loc[p].status = "upstream_error" /\ loc[p].bars_inserted > 0

\* C9: a failed quote refresh adds no Quote row and does not end the call; the gap list
\* depends on the desired range and the extent read only, so it is the same after a
\* failed and after a successful refresh.
C9_QuoteFailureSwallowed ==
    [][\A p \in Workers :
         /\ (loc[p].pc = "quote" /\ loc'[p] # loc[p])
               => (loc'[p].pc = "query_oldest" /\ loc'[p].status = "none")
         /\ (loc[p].pc = "quote" /\ loc'[p].quote = "failed") => quotes' = quotes
         /\ \A q \in Workers :
               (/\ loc'[p].pc \in PostGaps /\ loc'[q].pc \in PostGaps
                /\ loc'[p].quote = "failed" /\ loc'[q].quote = "ok"
                /\ loc'[p].desired_start = loc'[q].desired_start
                /\ loc'[p].desired_end = loc'[q].desired_end
                /\ loc'[p].have_start = loc'[q].have_start
                /\ loc'[p].have_end = loc'[q].have_end)
                   => loc'[p].missing_ranges = loc'[q].missing_ranges]_vars

\* a call whose quote refresh failed merged bars and is about to return
C9_Witness ==
    \E p \in Workers :
        loc[p].quote = "failed" /\ loc[p].pc = "finish" /\ loc[p].bars_inserted > 0

\* C10: the clock readings at which any two distinct wait() calls are released differ
\* by at least period, so N calls take at least (N - 1) * period, and no two calls act
\* on the same value of next_allowed.
C10_RateCap ==
    /\ \A i, j \in DOMAIN rl_log :
          i < j => /\ rl_log[j].rel - rl_log[i].rel >= period
                   /\ rl_log[j].rel - rl_log[i].rel >= (j - i) * 12
                   /\ rl_log[i].seen # rl_log[j].seen
    /\ \A p, q \in Workers :
          (p # q /\ thr[p].pc \in {"sleeping", "awake"} /\ thr[q].pc \in {"sleeping", "awake"})
             => thr[p].seen # thr[q].seen

\* three calls were released, one of them after sleeping, while a thread waited for the lock
C10_Witness ==
    /\ Len(rl_log) >= 3
    /\ \E i \in DOMAIN rl_log : rl_log[i].now < rl_log[i].seen

\* C11: when an attempt of fetch_bars is answered 401, 403 or 400, fetch_bars raises at
\* once, whatever the attempt number: that request is its last, no backoff sleep and no
\* wait() follow it; confirm_symbol then ends with the upstream failure (502), leaving
\* the bars table as it is.
C11_FatalNotRetried ==
    [][\A p \in Workers :
         /\ (fb'[p].http = fb[p].http + 1 /\ fb'[p].code \in {401, 403, 400})
               => /\ fb'[p].pc = "raised"
                  /\ fb'[p].sleeps = fb[p].sleeps
                  /\ fb'[p].waits = fb[p].waits
                  /\ fb'[p].http = fb[p].attempt
         /\ (fb[p].pc = "raised" /\ fb'[p] # fb[p])
               => /\ fb'[p].pc = "off"
                  /\ loc'[p].pc = "done"
                  /\ loc'[p].status = "upstream_error"
                  /\ bars' = bars
         /\ (fb[p].pc = "raised" /\ fb'[p] = fb[p]) => loc'[p] = loc[p]]_vars

\* fetch_bars raised on a 400 answered to its second attempt
C11_Witness ==
    \E p \in Workers : fb[p].pc = "raised" /\ fb[p].code = 400 /\ fb[p].http = 2

\* C12: fetch_bars sends at most max_retries requests; after failed attempt k < max_retries
\* it sleeps retry_backoff_s * k, and the next request is not sent before that time has
\* passed; it does not sleep after the last attempt; when all attempts failed it raises
\* once, with the failure of the last attempt; when attempt k succeeds it returns the
\* bars of that answer and sends nothing more.
C12_BoundedRetry ==
    [][\A p \in Workers :
         LET f == fb'[p]
         IN /\ f.http <= max_retries
            /\ f.attempt <= max_retries
            /\ \A i \in DOMAIN f.sleeps : f.sleeps[i] = retry_backoff_ms * i
            /\ f.pc \in {"loop", "in_wait"}
                  => (f.http = f.attempt - 1 /\ Len(f.sleeps) = f.attempt - 1)
            /\ f.pc = "backoff"
                  => (f.http = f.attempt /\ Len(f.sleeps) = f.attempt /\ f.attempt < max_retries)
            /\ (f.pc = "raised" /\ f.http > 0 /\ f.code \notin {401, 403, 400})
                  => (f.http = max_retries /\ Len(f.sleeps) = max_retries - 1 /\ f.code # 200)
            /\ (f.pc = "returned" /\ f.http > 0)
                  => /\ f.code = 200 /\ f.http = f.attempt /\ Len(f.sleeps) = f.http - 1
                     /\ {f.rows[i] : i \in DOMAIN f.rows}
                           = {ts \in ProviderData : f.df <= ts \div 24 /\ ts \div 24 <= f.dt}
            /\ (f.http = fb[p].http + 1 /\ fb[p].sleeps # <<>>)
                  => clock * 1000 >= fb[p].wake
            /\ fb[p].pc \in {"returned", "raised"} => f.pc \in {fb[p].pc, "off"}]_vars

\* fetch_bars gave up after max_retries failed attempts and two backoff sleeps
C12_Witness ==
    \E p \in Workers : /\ fb[p].pc = "raised" /\ fb[p].http = max_retries
                       /\ fb[p].code = 500 /\ Len(fb[p].sleeps) = 2

\* C13: every request of fetch_bars, first attempt or retry, is sent after a wait() call
\* of its own has returned: when request number n of an execution is sent, the thread
\* has called wait() n times in that execution, all n calls have returned and the thread
\* is outside wait(); between attempts the numbers of wait() calls and of requests are equal.
C13_WaitBeforeEveryRequest ==
    [][\A p \in Workers :
         /\ fb'[p].http = fb[p].http + 1
               => /\ fb[p].waits = fb'[p].http
                  /\ WaitsDone(p) - fb[p].w0 = fb'[p].http
                  /\ thr[p].pc = "out"
         /\ fb'[p].pc \in {"loop", "backoff", "returned", "raised"}
               => fb'[p].waits = fb'[p].http
         /\ fb'[p].pc = "in_wait" => fb'[p].waits = fb'[p].http + 1]_vars

\* a retry was sent after the thread slept in its second wait(), another thread having
\* passed the limiter too
C13_Witness ==
    \E p \in Workers :
        /\ fb[p].http >= 2
        /\ \E i \in DOMAIN rl_log : rl_log[i].by = p /\ rl_log[i].now < rl_log[i].seen
        /\ \E i \in DOMAIN rl_log : rl_log[i].by # p

\* C16: dedupe_headlines keeps, in input order, the first item of every non-empty key
\* (the trimmed URL lowercased, or the trimmed title lowercased when the URL is empty),
\* drops the items with an empty key and the later items of a key, and stops after the
\* first `limit` items so kept.
C16_Dedupe ==
    dd.pc = "done" =>
        LET it == dd.items
            K(i) == IF strip(it[i].url) # <<>> THEN lower(strip(it[i].url))
                    ELSE lower(strip(it[i].title))
            First == {i \in DOMAIN it : K(i) # <<>> /\ \A j \in 1..(i - 1) : K(j) # K(i)}
            Kept == {i \in First : Cardinality({j \in First : j < i}) < dd.limit}
        IN /\ Len(dd.out) = Cardinality(Kept)
           /\ Len(dd.out) <= dd.limit
           /\ \A n \in DOMAIN dd.out :
                 \E i \in Kept : Cardinality({j \in Kept : j <= i}) = n /\ dd.out[n] = it[i]

\* of two items with the same URL up to case and different titles the second was dropped,
\* and the output was cut at the limit
C16_Witness ==
    /\ dd.pc = "done" /\ Len(dd.items) = 3 /\ dd.limit = 1 /\ Len(dd.out) = 1
    /\ dd.items[1].url = <<"A">> /\ dd.items[2].url = <<" ", "a">>
    /\ dd.items[1].title # dd.items[2].title
    /\ dd.items[3].url = <<"b">>

\* the request of worker p found articles for its (symbol, day) when it queried the cache
FoundStored(p) ==
    /\ loc[p].pc = "news_cache" /\ loc'[p] # loc[p]
    /\ StoredIds(news, loc[p].sym, loc[p].day.d) # {}

\* what a request that found articles does: it is served from the store, it returns at
\* most `limit` headlines, all of them stored articles of its (symbol, day), it never
\* calls the news provider and inserts nothing
ServedFromStore(p) ==
    LET ids == StoredIds(news, loc[p].sym, loc[p].day.d)
        hs == loc'[p].headlines
    IN /\ FoundStored(p)
          => /\ loc'[p].pc = "news_finish" /\ loc'[p].hit
             /\ news' = news
             /\ Len(hs) <= loc[p].limit
             /\ \A n \in DOMAIN hs :
                   \E i \in ids : hs[n] = Headline(news[i].title, news[i].url, news[i].pub)
       /\ loc'[p].hit => (loc'[p].prov = "none" /\ loc'[p].ins = {})
       /\ (loc[p].hit /\ loc'[p] # loc[p])
             => (loc'[p].pc = "done" /\ loc'[p].status = "ok" /\ news' = news)

\* the headlines returned are exactly the articles found
ReturnsAllFound(p) ==
    LET ids == StoredIds(news, loc[p].sym, loc[p].day.d)
        hs == loc'[p].headlines
    IN /\ Len(hs) = Cardinality(ids)
       /\ \A i \in ids : \E n \in DOMAIN hs :
             hs[n] = Headline(news[i].title, news[i].url, news[i].pub)

\* C14 as stated: a news request that finds articles stored for its (symbol, day) is
\* served from the store; with 3 stored articles of distinct URLs and limit = 5 it
\* returns exactly those 3.
C14_CacheAuthoritative ==
    [][\A p \in Workers :
         /\ ServedFromStore(p)
         /\ LET ids == StoredIds(news, loc[p].sym, loc[p].day.d)
            IN (/\ FoundStored(p) /\ Cardinality(ids) = 3 /\ loc[p].limit = 5
                /\ \A i, j \in ids : i # j => news[i].url # news[j].url)
                   => ReturnsAllFound(p)]_vars

\* C14 amended: the same, with the 3 stored articles distinct in their deduplication
\* keys (the URL lowercased, or the title lowercased when the URL is empty).
C14_CacheAuthoritativeByKey ==
    [][\A p \in Workers :
         /\ ServedFromStore(p)
         /\ LET ids == StoredIds(news, loc[p].sym, loc[p].day.d)
                K(i) == IF news[i].url # <<>> THEN lower(news[i].url) ELSE lower(news[i].title)
            IN (/\ FoundStored(p) /\ Cardinality(ids) = 3 /\ loc[p].limit = 5
                /\ \A i, j \in ids : i # j => K(i) # K(j))
                   => ReturnsAllFound(p)]_vars

\* a request with limit 5 is about to return the 3 articles it found in the store,
\* one of them without published_at
C14_Witness ==
    \E p \in Workers :
        /\ loc[p].pc = "news_finish" /\ loc[p].hit /\ loc[p].limit = 5
        /\ Cardinality(loc[p].at_check) = 3 /\ Len(loc[p].headlines) = 3
        /\ \E n \in DOMAIN loc[p].headlines : IsNone(loc[p].headlines[n].pub)

\* C15: when a cache-miss request is about to return, every headline it returns is
\* stored for the symbol: inserted by the request, or in conflict with an article of the
\* same URL stored before.
C15_MissPersistsAll ==
    \A p \in Workers :
        (loc[p].pc = "news_finish" /\ loc[p].prov = "ok") =>
            \A n \in DOMAIN loc[p].headlines :
                \E i \in DOMAIN news : /\ news[i].symbol_id = loc[p].sym
                                       /\ news[i].url = loc[p].headlines[n].url

C17_MetadataWriteOnce ==
    [][\A i \in DOMAIN symbols :
         /\ ~IsNone(symbols[i].name) => symbols'[i].name = symbols[i].name
         /\ ~IsNone(symbols[i].exchange) => symbols'[i].exchange = symbols[i].exchange]_vars

\* C18: no step of any endpoint, whatever the interleaving, removes or changes a stored
\* Bar, Quote or NewsArticle row: every row is in the table after the step as it was
\* before, also when an insert conflicted with it.
C18_AppendOnly ==
    [][/\ \A r \in BagToSet(bars) : CopiesIn(r, bars') >= CopiesIn(r, bars)
       /\ \A r \in BagToSet(quotes) : CopiesIn(r, quotes') >= CopiesIn(r, quotes)
       /\ Len(news') >= Len(news)
       /\ \A i \in DOMAIN news : news'[i] = news[i]]_vars

\* a news request whose insert conflicted with stored articles is about to return
C18_Witness ==
    \E p \in Workers :
        /\ loc[p].pc = "news_finish" /\ loc[p].prov = "ok"
        /\ loc[p].headlines # <<>> /\ loc[p].ins = {}
        /\ \E i \in DOMAIN news, n \in DOMAIN loc[p].headlines :
              /\ news[i].url = loc[p].headlines[n].url
              /\ news[i].pub # loc[p].headlines[n].pub

\* C20: latest_quote answers NotFound when the symbol is not stored or has no quote;
\* otherwise it returns a stored quote of the symbol whose quote_ts is the greatest of
\* the symbol's quotes, whatever the order of insertion; it never writes the symbols table.
C20_LatestByTimestamp ==
    [][\A p \in Workers :
         /\ (loc[p].pc = "latest_query" /\ loc'[p] # loc[p])
               => IF \A q \in BagToSet(quotes) : q.symbol_id # loc[p].sym
                  THEN loc'[p].pc = "done" /\ loc'[p].status = "not_found"
                  ELSE /\ loc'[p].pc = "latest_finish"
                       /\ BagIn(Val(loc'[p].res), quotes)
                       /\ Val(loc'[p].res).symbol_id = loc[p].sym
                       /\ \A q \in BagToSet(quotes) :
                             q.symbol_id = loc[p].sym => q.quote_ts <= Val(loc'[p].res).quote_ts
         /\ (loc'[p].op = "latest" /\ loc[p].pc \in {"idle", "done"} /\ loc'[p] # loc[p])
               => \/ /\ loc'[p].pc = "latest_query"
                     /\ loc'[p].sym \in DOMAIN symbols
                     /\ symbols[loc'[p].sym].ticker = loc'[p].ticker
                  \/ /\ loc'[p].pc = "done" /\ loc'[p].status = "not_found"
                     /\ \E raw \in RawTickers :
                           \A i \in DOMAIN symbols : symbols[i].ticker # strip(upper(raw))
         /\ (loc'[p].op = "latest" /\ loc'[p] # loc[p])
               => (symbols' = symbols /\ quotes' = quotes)]_vars

\* latest_quote is about to return a quote that was inserted before another quote of
\* the symbol with a smaller quote_ts
C20_Witness ==
    \E p \in Workers :
        /\ loc[p].pc = "latest_finish"
        /\ \E q \in BagToSet(quotes) :
              /\ q.symbol_id = loc[p].sym
              /\ q.id > Val(loc[p].res).id
              /\ q.quote_ts < Val(loc[p].res).quote_ts

\* C21: every gap [a, b] of the gap list a confirm has computed lies inside its clamped
\* desired interval and is not degenerate: desired_start <= a <= b <= desired_end.
C21_GapInsideDesired ==
    \A p \in Workers :
        loc[p].pc \in {"fetch", "commit_batch", "row_by_row", "finish"}
            => \A i \in DOMAIN loc[p].missing_ranges :
                   /\ loc[p].desired_start <= loc[p].missing_ranges[i][1]
                   /\ loc[p].missing_ranges[i][1] <= loc[p].missing_ranges[i][2]
                   /\ loc[p].missing_ranges[i][2] <= loc[p].desired_end

\* C21 amended: every gap is non-degenerate; it lies inside the clamped desired interval
\* when nothing is stored or the desired interval overlaps or adjoins the stored extent;
\* for a desired interval entirely before the stored extent the gap list is
\* [[desired_start, have_start - 1]], for one entirely after it [[have_end + 1, desired_end]].
C21_GapInsideDesiredOrUpToExtent ==
    \A p \in Workers :
        loc[p].pc \in {"fetch", "commit_batch", "row_by_row", "finish"}
            => LET l == loc[p]
                   inside == \A i \in DOMAIN l.missing_ranges :
                                 /\ l.desired_start <= l.missing_ranges[i][1]
                                 /\ l.missing_ranges[i][2] <= l.desired_end
               IN /\ \A i \in DOMAIN l.missing_ranges :
                         l.missing_ranges[i][1] <= l.missing_ranges[i][2]
                  /\ IF IsNone(l.have_start) \/ IsNone(l.have_end) THEN inside
                     ELSE IF l.desired_end < Val(l.have_start) - 1
                          THEN l.missing_ranges = << <<l.desired_start, Val(l.have_start) - 1>> >>
                     ELSE IF l.desired_start > Val(l.have_end) + 1
                          THEN l.missing_ranges = << <<Val(l.have_end) + 1, l.desired_end>> >>
                     ELSE inside

\* a confirm fetches a gap that ends after its desired end, and the stored extent begins
\* more than a day after that end
C21_Witness ==
    \E p \in Workers :
        /\ loc[p].pc = "fetch"
        /\ ~IsNone(loc[p].have_start)
        /\ loc[p].desired_end < Val(loc[p].have_start) - 1
        /\ loc[p].missing_ranges[loc[p].gi][2] > loc[p].desired_end

\* C22: a confirm calls fetch_bars once per gap of its list, in list order, for the whole
\* gap (the rows it gets are the provider's answer for [a, b]); the list has at most two
\* gaps, the left one first; the fetch of a gap starts only when every row fetched for
\* the gaps before it is in the store; a confirm that returns has fetched every gap once.
C22_FetchOrder ==
    [][\A p \in Workers :
         /\ (loc[p].pc = "fetch" /\ loc'[p].pc = "commit_batch")
               => LET g == loc[p].missing_ranges[loc[p].gi]
                  IN /\ loc'[p].fetches = loc[p].gi
                     /\ loc'[p].rows = fetch_bars(g[1], g[2])
         /\ (loc'[p].pc = "fetch" /\ loc[p].pc # "fetch")
               => /\ loc'[p].fetches = loc'[p].gi - 1
                  /\ loc'[p].gi <= 2
                  /\ \A ts \in loc'[p].fetched : BagIn(BarRow(loc'[p].sym, ts), bars')
         /\ (loc'[p].pc = "finish" /\ loc[p].pc # "finish")
               => /\ loc'[p].fetches = Len(loc'[p].missing_ranges)
                  /\ Len(loc'[p].missing_ranges) <= 2
                  /\ Len(loc'[p].missing_ranges) = 2
                        => /\ loc'[p].missing_ranges[1][1] = loc'[p].desired_start
                           /\ loc'[p].missing_ranges[2][2] = loc'[p].desired_end
                           /\ loc'[p].missing_ranges[1][2] < loc'[p].missing_ranges[2][1]]_vars

\* a confirm with a left and a right gap is about to fetch the right gap, the rows of the
\* left gap merged
C22_Witness ==
    \E p \in Workers :
        /\ loc[p].pc = "fetch" /\ loc[p].gi = 2
        /\ loc[p].fetched # {} /\ loc[p].bars_inserted > 0

\* the number of rows the provider returns over all the gaps of a gap list
RECURSIVE RowsOverGaps(_)
RowsOverGaps(gaps) ==
    IF gaps = <<>> THEN 0
    ELSE Len(fetch_bars(Head(gaps)[1], Head(gaps)[2])) + RowsOverGaps(Tail(gaps))

\* C23: in a confirm, racing or not, bars_inserted counts exactly the Bar rows the call
\* added: a batch commit adds all its rows and counts them, a row of the fallback loop is
\* added and counted when its key is not stored and is skipped, uncounted and without
\* failure, when it is; a confirm about to return has 0 <= bars_inserted <= bars_fetched,
\* bars_fetched the number of rows the provider returned over all gaps, and every fetched
\* row that it did not add is stored.
C23_Counters ==
    [][\A p \in Workers :
         /\ loc[p].pc = "commit_batch" /\ loc'[p] # loc[p]
               => \/ /\ loc'[p].pc = "row_by_row"
                     /\ bars' = bars /\ loc'[p].bars_inserted = loc[p].bars_inserted
                  \/ /\ loc'[p].pc # "row_by_row"
                     /\ BagCardinality(bars') = BagCardinality(bars) + Len(loc[p].rows)
                     /\ loc'[p].bars_inserted = loc[p].bars_inserted + Len(loc[p].rows)
         /\ loc[p].pc = "row_by_row" /\ loc'[p] # loc[p]
               => LET b == BarRow(loc[p].sym, loc[p].rows[loc[p].ri])
                  IN /\ loc'[p].pc # "done"
                     /\ IF BagIn(b, bars)
                        THEN bars' = bars /\ loc'[p].bars_inserted = loc[p].bars_inserted
                        ELSE /\ bars' = bars (+) SetToBag({b})
                             /\ loc'[p].bars_inserted = loc[p].bars_inserted + 1
         /\ loc'[p].pc = "finish"
               => /\ 0 <= loc'[p].bars_inserted
                  /\ loc'[p].bars_inserted <= loc'[p].bars_fetched
                  /\ loc'[p].bars_inserted = Cardinality(loc'[p].mine)
                  /\ loc'[p].bars_fetched = RowsOverGaps(loc'[p].missing_ranges)
                  /\ \A ts \in loc'[p].fetched : BagIn(BarRow(loc'[p].sym, ts), bars')]_vars

\* a confirm that lost a uniqueness race is about to return: it skipped rows that another
\* confirm had stored, and inserted others
C23_Witness ==
    \E p \in Workers :
        /\ loc[p].pc = "finish"
        /\ loc[p].bars_inserted > 0
        /\ loc[p].bars_inserted < loc[p].bars_fetched
        /\ \E ts \in loc[p].fetched : BarRow(loc[p].sym, ts) \notin loc[p].mine

\* a fetch_bars call that has sent no request and has not called wait()
NothingSent(p) ==
    /\ fb[p].http = 0 /\ fb[p].waits = 0
    /\ WaitsDone(p) = fb[p].w0 /\ thr[p].pc = "out"

\* C24: with the API key set and a non-empty ticker, fetch_bars raises ProviderError for a
\* malformed date string, returns [] for a start later than the end and for a range
\* entirely before UNIX_EPOCH, in all three cases without a request and without a wait()
\* call; when only the start precedes UNIX_EPOCH the request is for [UNIX_EPOCH, end], and
\* the call does not end before a request was sent.
C24_ShortCircuits ==
    \A p \in Workers :
        (loc[p].pc = "bars_call" /\ fb[p].key /\ NormTicker(loc[p].ticker) # <<>>)
            => LET from == loc[p].start
                   to == loc[p].end
               IN IF from.k # "date" \/ to.k # "date"
                  THEN fb[p].pc = "raised" /\ NothingSent(p)
                  ELSE IF from.d > to.d \/ to.d < UNIX_EPOCH
                  THEN fb[p].pc = "returned" /\ fb[p].rows = <<>> /\ NothingSent(p)
                  ELSE /\ fb[p].df = Max(from.d, UNIX_EPOCH)
                       /\ fb[p].dt = to.d
                       /\ fb[p].pc \in {"raised", "returned"} => fb[p].http >= 1
                       /\ fb[p].http >= 1 => fb[p].waits >= fb[p].http

\* fetch_bars, called with a start before the floor and an end after it, has sent its
\* request for the range that starts at the floor
C24_Witness ==
    \E p \in Workers :
        /\ loc[p].pc = "bars_call" /\ fb[p].key
        /\ loc[p].start.k = "date" /\ loc[p].end.k = "date"
        /\ loc[p].start.d < UNIX_EPOCH /\ loc[p].end.d >= UNIX_EPOCH
        /\ fb[p].pc = "returned" /\ fb[p].http = 1 /\ fb[p].df = UNIX_EPOCH

\* fetch_bars, called for a range entirely before the floor while the limiter has served
\* other callers, has returned [] without a request
C24_WitnessShort ==
    \E p \in Workers :
        /\ loc[p].pc = "bars_call" /\ fb[p].key
        /\ loc[p].start.k = "date" /\ loc[p].end.k = "date"
        /\ loc[p].start.d <= loc[p].end.d /\ loc[p].end.d < UNIX_EPOCH
        /\ fb[p].pc = "returned" /\ fb[p].http = 0 /\ rl_log # <<>>

\* C25: under fair scheduling and a fair lock every wait() call returns; the lock is held
\* exactly by a thread that is inside wait() (sleeping included) and is free when none is;
\* a call that reads a clock not before next_allowed does not sleep.
C25_WaitReturns ==
    /\ \A p \in Workers : (fb[p].pc = "in_wait") ~> (fb[p].pc = "off")
    /\ [](\A p \in Workers : (lock = p) <=> (thr[p].pc \in {"locked", "sleeping", "awake"}))
    /\ [][\A p \in Workers :
            (thr[p].pc = "locked" /\ thr'[p].pc # "locked" /\ clock >= next_allowed)
                => thr'[p].pc = "awake"]_vars

\* a thread has called wait() and is blocked on the lock while another thread sleeps
\* inside wait() holding it
C25_Witness ==
    \E p, q \in Workers :
        /\ p # q
        /\ fb[p].pc = "in_wait" /\ thr[p].pc = "out" /\ WaitsDone(p) = fb[p].w0
        /\ thr[q].pc = "sleeping" /\ lock = q

\* C27: when confirms are served one at a time, in every state in which no confirm is in
\* the middle of its row-by-row fallback (the provider of the claim returns no timestamp
\* twice, so that there is no fallback), every provider bar dated within the stored extent
\* of a symbol is stored; also after confirms that failed on their first or second gap.
C27_NoInteriorHole ==
    (\A p \in Workers : loc[p].pc # "row_by_row")
        => \A sid \in DOMAIN symbols :
               \A ts \in ProviderData :
                   (/\ ~IsNone(OldestDate(bars, sid))
                    /\ Val(OldestDate(bars, sid)) <= DateOf(ts)
                    /\ DateOf(ts) <= Val(LatestDate(bars, sid)))
                       => BagIn(BarRow(sid, ts), bars)

\* a confirm has failed on its second gap after merging the first, and the stored extent
\* has a provider bar strictly inside it
C27_Witness ==
    \E p \in Workers :
        /\ loc[p].pc = "done" /\ loc[p].status = "upstream_error"
        /\ loc[p].bars_inserted > 0
        /\ \E sid \in DOMAIN symbols, ts \in ProviderData :
              /\ ~IsNone(OldestDate(bars, sid))
              /\ Val(OldestDate(bars, sid)) < DateOf(ts)
              /\ DateOf(ts) < Val(LatestDate(bars, sid))

\* C28: a confirm is rejected with InvalidRange straight after the metadata step, before
\* the quote refresh and the gap fetches: no step of the call up to and including the
\* rejection changes the bars or the quotes table, and the rejected call has made no
\* quote refresh, no fetch_bars call and no insert.
C28_InvalidRangeNoSideEffect ==
    [][\A p \in Workers :
         /\ (loc'[p] # loc[p] /\ loc'[p].op = "confirm"
             /\ loc[p].pc \in {"idle", "done", "create_symbol", "ensure_metadata"})
               => (bars' = bars /\ quotes' = quotes)
         /\ (loc'[p] # loc[p] /\ loc'[p].pc = "done" /\ loc'[p].status = "invalid_range")
               => /\ loc[p].pc = "ensure_metadata"
                  /\ loc[p].quote = "none" /\ loc[p].fetches = 0 /\ loc[p].mine = {}
                  /\ loc'[p].bars_fetched = 0 /\ loc'[p].bars_inserted = 0
                  /\ fb' = fb /\ fb[p].pc = "off"]_vars

\* the first confirm of a behaviour has been rejected with InvalidRange: the symbol and
\* its metadata are stored, no bar and no quote
C28_Witness ==
    \E p \in Workers :
        /\ loc[p].pc = "done" /\ loc[p].status = "invalid_range"
        /\ calls = 1
        /\ Len(symbols) = 1 /\ ~IsNone(symbols[1].name)
        /\ bars = EmptyBag /\ quotes = EmptyBag

\* C29: the symbols table holds one row per ticker, and no request ends with the
\* violation of the ticker uniqueness constraint.
C29_SymbolCreationRaceSafe ==
    /\ \A i, j \in DOMAIN symbols : symbols[i].ticker = symbols[j].ticker => i = j
    /\ \A p \in Workers : ~(loc[p].pc = "done" /\ loc[p].status = "integrity_error")

\* C30: a confirm repeated with the same parameters and the same today right after a
\* successful one, no bar written in between, computes an empty gap list and calls
\* fetch_bars for no range.
C30_RepeatFetchesNothing ==
    \A p \in Workers :
        (loc[p].rep /\ loc[p].pc \in {"fetch", "commit_batch", "row_by_row", "finish"})
            => (loc[p].missing_ranges = <<>> /\ loc[p].fetches = 0)

\* C26: every sub-range [a, b] a confirm passes to fetch_bars spans at most
\* MAX_HISTORY_DAYS and starts no earlier than the clamped desired end - MAX_HISTORY_DAYS.
C26_FetchWithinHistoryWindow ==
    \A p \in Workers :
        loc[p].pc = "fetch"
            => LET g == loc[p].missing_ranges[loc[p].gi]
               IN /\ g[2] - g[1] <= MAX_HISTORY_DAYS
                  /\ g[1] >= loc[p].desired_end - MAX_HISTORY_DAYS

====
